---- MODULE Spec2Model ----
(***************************************************************************)
(* Model of the patch-generation agent (backend/agents/patch_agent.py).    *)
(*                                                                         *)
(* Text is modelled character by character: a string is a sequence of      *)
(* one-character strings, "nl" standing for the newline character.         *)
(* A model response is a sequence of lexical tokens (see parse_json_safe). *)
(***************************************************************************)
EXTENDS Integers, Sequences, FiniteSets, TLC

VARIABLES
    pc,               \* position inside generate_patch
    repo_name,        \* argument repo_name
    reasoning,        \* search_result["reasoning"]
    suspect_files,    \* search_result["suspect_files"], the raw file_path of each
    fs,               \* working tree: canonical path -> file content
    index,            \* git index: staged content of each tracked path
    head,             \* HEAD commit: committed content of each tracked path
    cand,             \* position in the candidate-model list (1-based)
    calls,            \* history: call_llm invocations, [cand, kind, outcome] each
    changes,          \* local `changes` of the current attempt
    tests,            \* local `tests` of the current attempt
    patch,            \* local `patch`: has a candidate been accepted
    changed,          \* local `changed`
    diff,             \* local `diff`: the tracked paths `git diff` reports
    written,          \* history: the normalised paths write_text was called on, in order
    attempted_models, \* local `attempted_models`
    attempt_debug,    \* local `attempt_debug`
    vcs,              \* history: the version-control steps executed, in order
    commit_sha,       \* local `commit_sha` (0 = None)
    result,           \* the returned dict; status "none" while running, "raised"
                      \* when an exception left generate_patch
    tools,            \* the executables installed on the host, among git and gh
    args,             \* arguments of the helper function under study (<<>> otherwise)
    ret,              \* what that helper function returned (<<>> before it has)
    worker,           \* position of the thread run_pipeline of /investigate
    emitted,          \* history: the events the pipeline emitted, in order
    ready,            \* the event loop's scheduled callbacks: the argument of each
                      \* queue.put_nowait handed to call_soon_threadsafe, in order
    queue,            \* the asyncio.Queue of the request
    stream            \* the events event_stream has yielded to the client, in order

vars == <<pc, repo_name, reasoning, suspect_files, fs, index, head, cand, calls, changes,
          tests, patch, changed, diff, written, attempted_models,
          attempt_debug, vcs, commit_sha, result, tools, args, ret,
          worker, emitted, ready, queue, stream>>

----------------------------------------------------------------------------
(* Strings as character sequences                                          *)

UpperChars == <<"A","B","C","D","E","F","G","H","I","J","K","L","M",
                "N","O","P","Q","R","S","T","U","V","W","X","Y","Z">>

LowerChars == <<"a","b","c","d","e","f","g","h","i","j","k","l","m",
                "n","o","p","q","r","s","t","u","v","w","x","y","z">>

\* str.lower(), one character
lower_char(c) ==
    IF \E i \in 1..Len(UpperChars) : UpperChars[i] = c
    THEN LowerChars[CHOOSE i \in 1..Len(UpperChars) : UpperChars[i] = c]
    ELSE c

\* str.lower()
lower(s) == [i \in 1..Len(s) |-> lower_char(s[i])]

\* s.startswith(prefix)
startswith(s, prefix) ==
    /\ Len(prefix) <= Len(s)
    /\ SubSeq(s, 1, Len(prefix)) = prefix

\* `sub in s`
contains(s, sub) ==
    \E i \in 1..(Len(s) - Len(sub) + 1) : SubSeq(s, i, i + Len(sub) - 1) = sub

\* s.count(ch)
count(s, ch) == Cardinality({i \in 1..Len(s) : s[i] = ch})

\* drop every leading character that belongs to `chars` (str.lstrip(chars))
RECURSIVE lstrip(_, _)
lstrip(s, chars) ==
    IF s # <<>> /\ Head(s) \in chars THEN lstrip(Tail(s), chars) ELSE s

\* drop every trailing character that belongs to `chars` (str.rstrip(chars))
RECURSIVE rstrip(_, _)
rstrip(s, chars) ==
    IF s # <<>> /\ s[Len(s)] \in chars
    THEN rstrip(SubSeq(s, 1, Len(s) - 1), chars)
    ELSE s

Whitespace == {" ", "nl"}

\* str.strip()
strip(s) == rstrip(lstrip(s, Whitespace), Whitespace)

\* s.split("/"): the segments between the separators, empty segments kept
RECURSIVE split(_, _)
split(s, sep) ==
    IF \A i \in 1..Len(s) : s[i] # sep
    THEN <<s>>
    ELSE LET k == CHOOSE i \in 1..Len(s) :
                     s[i] = sep /\ \A j \in 1..(i - 1) : s[j] # sep
         IN  <<SubSeq(s, 1, k - 1)>> \o split(SubSeq(s, k + 1, Len(s)), sep)

\* sep.join(parts)
RECURSIVE join(_, _)
join(parts, sep) ==
    IF parts = <<>> THEN <<>>
    ELSE IF Len(parts) = 1 THEN parts[1]
    ELSE parts[1] \o <<sep>> \o join(Tail(parts), sep)

\* every string over `chars` of at most n characters
Strings(chars, n) == UNION {[1..k -> chars] : k \in 0..n}

----------------------------------------------------------------------------
(* Path screening                                                          *)

blocked ==
    << <<".", "e", "n", "v">>,
       <<"s", "e", "c", "r", "e", "t">>,
       <<"s", "e", "c", "r", "e", "t", "s">>,
       <<"c", "r", "e", "d", "e", "n", "t", "i", "a", "l">>,
       <<"c", "r", "e", "d", "e", "n", "t", "i", "a", "l", "s">>,
       <<"t", "o", "k", "e", "n">>,
       <<"p", "r", "i", "v", "a", "t", "e", "_", "k", "e", "y">>,
       <<"i", "d", "_", "r", "s", "a">> >>

\* variant: the blocked words sought in the path as given, without .lower()
is_secret_path_cased(path) ==
    \E i \in 1..Len(blocked) : contains(path, blocked[i])

is_secret_path(path) ==
    LET p == lower(path)
    IN  \E i \in 1..Len(blocked) : contains(p, blocked[i])

\* Path(path).parts: the segments of the path; empty and "." segments vanish,
\* a leading "/" is a part of its own
path_parts(path) ==
    LET segs == split(path, "/")
        keep == SelectSeq(segs, LAMBDA g : g # <<>> /\ g # <<".">>)
    IN  IF path # <<>> /\ Head(path) = "/" THEN <<<<"/">>>> \o keep ELSE keep

safe_rel_path(path) ==
    IF path = <<>> \/ startswith(path, <<"/">>)
    THEN FALSE
    ELSE IF \E i \in 1..Len(path_parts(path)) : path_parts(path)[i] = <<".", ".">>
    THEN FALSE
    ELSE TRUE

normalize_repo_relative_path(path, repo) ==
    LET p  == lstrip(strip(path), {".", "/"})
        rn == rstrip(lstrip(strip(repo), {"/"}), {"/"})
        parts == split(p, "/")
        owner_like == parts[1] # <<>> /\ ~startswith(parts[1], <<".">>)
        repo_like  == parts[2] # <<>> /\ ~startswith(parts[2], <<".">>)
    IN  IF p = <<>> THEN p
        ELSE IF rn # <<>> /\ startswith(p, rn \o <<"/">>)
        THEN SubSeq(p, Len(rn) + 2, Len(p))
        ELSE IF /\ Len(parts) >= 3
                /\ contains(parts[Len(parts)], <<".">>)
                /\ owner_like
                /\ repo_like
        THEN join(SubSeq(parts, 3, Len(parts)), "/")
        ELSE p

----------------------------------------------------------------------------
(* Change items and the Safety Gate                                        *)

\* A change item is [file_path, action, content]; a key the dict lacks holds
\* MISSING.  content is [shape, key, vshape, text, lines]:
\*   shape "str"  : a string, `text`
\*   shape "list" : a list of strings, `lines`
\*   shape "mixed": a list holding a non-string
\*   shape "dict" : a dict with the one key `key`, its value of shape `vshape`
\*   shape "none" : None;  shape "num" : a number
MISSING == <<"<missing>">>

\* d.get(key, default)
dict_get(v, default) == IF v = MISSING THEN default ELSE v

TextOf(t) == [shape |-> "str", key |-> "", vshape |-> "", text |-> t, lines |-> <<>>]

LinesOf(ls) == [shape |-> "list", key |-> "", vshape |-> "", text |-> <<>>, lines |-> ls]

DictOf(k, v) == [shape |-> "dict", key |-> k, vshape |-> v.shape, text |-> v.text, lines |-> v.lines]

Opaque(sh) == [shape |-> sh, key |-> "", vshape |-> "", text |-> <<>>, lines |-> <<>>]

NoText == [ok |-> FALSE, text |-> <<>>]

SomeText(t) == [ok |-> TRUE, text |-> t]

\* variant: str(content) for the shapes that are not text
coerce_content_to_text_str(content) ==
    IF content.shape = "str" THEN SomeText(content.text)
    ELSE IF content.shape = "list" THEN SomeText(join(content.lines, "nl"))
    ELSE SomeText(<<"N", "o", "n", "e">>)

coerce_content_to_text(content) ==
    IF content.shape = "str" THEN SomeText(content.text)
    ELSE IF content.shape = "list" THEN SomeText(join(content.lines, "nl"))
    ELSE IF content.shape = "dict" /\ content.key \in {"text", "code", "content", "body"}
    THEN IF content.vshape = "str" THEN SomeText(content.text)
         ELSE IF content.vshape = "list" THEN SomeText(join(content.lines, "nl"))
         ELSE NoText
    ELSE NoText

\* root / file_path: the canonical key under which the working tree holds the file
FsKey(file_path) == join(path_parts(file_path), "/")

\* what the working tree holds for a symbolic link to the directory ../out,
\* a sibling of the repository root
LinkOut == <<"->", ".", ".", "/", "o", "u", "t">>

\* the file the operating system opens for root / key: a path through a
\* symbolic link of the working tree leads to the link's target
FollowLinks(tree, key) ==
    IF \E f \in DOMAIN tree : tree[f] = LinkOut /\ startswith(key, f \o <<"/">>)
    THEN LET f == CHOOSE g \in DOMAIN tree :
                      tree[g] = LinkOut /\ startswith(key, g \o <<"/">>)
         IN  Tail(LinkOut) \o SubSeq(key, Len(f) + 1, Len(key))
    ELSE key

\* the path names a directory of the working tree (the root included)
IsDir(tree, key) ==
    \/ key = <<>>
    \/ key \in DOMAIN tree /\ tree[key] = LinkOut
    \/ \E f \in DOMAIN tree : startswith(f, key \o <<"/">>)

\* out_path.exists()
Exists(tree, key) == key \in DOMAIN tree \/ IsDir(tree, key)

\* a proper ancestor of the path is a regular file: mkdir(parents=True) raises
AncestorIsFile(tree, key) ==
    \E f \in DOMAIN tree : startswith(key, f \o <<"/">>)

\* _read_file(out_path) if out_path.exists() else None; reading a directory
\* raises inside _read_file, which returns ""
ReadExisting(tree, key) ==
    IF key \in DOMAIN tree /\ tree[key] # LinkOut THEN SomeText(tree[key])
    ELSE IF IsDir(tree, key) THEN SomeText(<<>>)
    ELSE NoText

Update == <<"u", "p", "d", "a", "t", "e">>

Create == <<"c", "r", "e", "a", "t", "e">>

\* the truncation guard of _write_changes, on (existing, content):
\* both the length ratio and the line ratio are below 0.35; ratios compared
\* exactly, new/old < 35/100
truncating_update(existing, content) ==
    LET old_len   == Len(existing)
        new_len   == Len(content)
        old_lines == count(existing, "nl") + 1
        new_lines == count(content, "nl") + 1
    IN  /\ old_len > 0
        /\ new_len > 0
        /\ new_len * 100 < 35 * old_len
        /\ new_lines * 100 < 35 * old_lines

\* what the loop body of _write_changes decides for one item:
\* "skip_unsafe", "skip_secret", "skip_action", "skip_content", "blocked",
\* "noop", "raise" or "write"
write_decision(tree, item, repo) ==
    LET file_path == normalize_repo_relative_path(strip(dict_get(item.file_path, <<>>)), repo)
        action    == lower(strip(dict_get(item.action, Update)))
        content   == coerce_content_to_text(item.content)
        key       == FollowLinks(tree, FsKey(file_path))
        existing  == ReadExisting(tree, key)
    IN  IF ~safe_rel_path(file_path) THEN "skip_unsafe"
        ELSE IF is_secret_path(file_path) THEN "skip_secret"
        ELSE IF action \notin {Update, Create} THEN "skip_action"
        ELSE IF ~content.ok THEN "skip_content"
        ELSE IF AncestorIsFile(tree, key) THEN "raise"
        ELSE IF existing.ok /\ action = Update
                /\ truncating_update(existing.text, content.text) THEN "blocked"
        ELSE IF existing.ok /\ existing.text = content.text THEN "noop"
        ELSE IF IsDir(tree, key) THEN "raise"
        ELSE "write"

\* one iteration of the loop of _write_changes; st is
\* [tree, changed_files, written, raised]
write_one(st, item, repo) ==
    LET file_path == normalize_repo_relative_path(strip(dict_get(item.file_path, <<>>)), repo)
        content   == coerce_content_to_text(item.content)
        d         == write_decision(st.tree, item, repo)
    IN  IF st.raised THEN st
        ELSE IF d = "raise" THEN [st EXCEPT !.raised = TRUE]
        ELSE IF d = "write"
        THEN [st EXCEPT !.tree = (FollowLinks(st.tree, FsKey(file_path)) :> content.text) @@ st.tree,
                        !.changed_files = Append(st.changed_files, file_path),
                        !.written = Append(st.written, file_path)]
        ELSE st

RECURSIVE write_loop(_, _, _)
write_loop(st, items, repo) ==
    IF items = <<>> THEN st
    ELSE write_loop(write_one(st, Head(items), repo), Tail(items), repo)

\* _write_changes(repo_path, items, em, repo_name) on the working tree `tree`
write_changes(tree, items, repo) ==
    write_loop([tree |-> tree, changed_files |-> <<>>, written |-> <<>>, raised |-> FALSE],
               items, repo)

----------------------------------------------------------------------------
(* Structured-response repair and payload normalisation                    *)

\* A response text is a sequence of tokens [k, v]:
\*   "lbrace" "rbrace" "lbracket" "rbracket" : the characters { } [ ]
\*   "num"     : a number literal
\*   "prose"   : any text that is not JSON and holds no brace
\*   "members" : the well-formed members of an object, standing for the
\*               object value v (the text between its outer braces)
\*   "badesc"  : the same with an invalid backslash escape in a string
\* A parsed JSON value is [kind, wrapper, members]: kind "object", "array" or
\* "number"; an object has list-valued members <<[key, items], ...>>, held
\* under the top-level key `wrapper` when that is not empty.
NoValue == [kind |-> "none", wrapper |-> <<>>, members |-> <<>>]

Tok(k) == [k |-> k, v |-> NoValue]

ObjectOf(wrapper, members) == [kind |-> "object", wrapper |-> wrapper, members |-> members]

Member(key, items) == [key |-> key, items |-> items]

Failed == [ok |-> FALSE, value |-> NoValue]

Parsed(v) == [ok |-> TRUE, value |-> v]

\* json.loads(text): the value, or JSONDecodeError (Failed)
RECURSIVE json_loads(_)
json_loads(text) ==
    IF Len(text) = 1 /\ text[1].k = "num"
    THEN Parsed([kind |-> "number", wrapper |-> <<>>, members |-> <<>>])
    ELSE IF Len(text) = 2 /\ text[1].k = "lbrace" /\ text[2].k = "rbrace"
    THEN Parsed(ObjectOf(<<>>, <<>>))
    ELSE IF Len(text) = 3 /\ text[1].k = "lbrace" /\ text[2].k = "members"
            /\ text[3].k = "rbrace"
    THEN Parsed(text[2].v)
    ELSE IF Len(text) = 2 /\ text[1].k = "lbracket" /\ text[2].k = "rbracket"
    THEN Parsed([kind |-> "array", wrapper |-> <<>>, members |-> <<>>])
    ELSE IF Len(text) > 2 /\ text[1].k = "lbracket" /\ text[Len(text)].k = "rbracket"
            /\ json_loads(SubSeq(text, 2, Len(text) - 1)).ok
    THEN Parsed([kind |-> "array", wrapper |-> <<>>, members |-> <<>>])
    ELSE Failed

\* re.sub(r'\\(?!["\\/bfnrtu])', r'\\\\', snippet): every invalid escape doubled
fix_escapes(text) ==
    [i \in 1..Len(text) |->
        IF text[i].k = "badesc" THEN [text[i] EXCEPT !.k = "members"] ELSE text[i]]

\* raw_text.find("{"), 1-based, 0 when absent
find_lbrace(text) ==
    IF \E i \in 1..Len(text) : text[i].k = "lbrace"
    THEN CHOOSE i \in 1..Len(text) :
             text[i].k = "lbrace" /\ \A j \in 1..(i - 1) : text[j].k # "lbrace"
    ELSE 0

\* raw_text.rfind("}"), 1-based, 0 when absent
rfind_rbrace(text) ==
    IF \E i \in 1..Len(text) : text[i].k = "rbrace"
    THEN CHOOSE i \in 1..Len(text) :
             text[i].k = "rbrace" /\ \A j \in (i + 1)..Len(text) : text[j].k # "rbrace"
    ELSE 0

\* variant: json.loads(raw_text) alone, no substring extraction
parse_json_safe_direct(raw_text, fallback) ==
    IF json_loads(raw_text).ok THEN json_loads(raw_text).value ELSE fallback

\* patch_agent._parse_json_safe
parse_json_safe(raw_text, fallback) ==
    LET start   == find_lbrace(raw_text)
        end     == rfind_rbrace(raw_text)
        snippet == SubSeq(raw_text, start, end)
    IN  IF json_loads(raw_text).ok THEN json_loads(raw_text).value
        ELSE IF start = 0 \/ end < start THEN fallback
        ELSE IF json_loads(snippet).ok THEN json_loads(snippet).value
        ELSE IF json_loads(fix_escapes(snippet)).ok
        THEN json_loads(fix_escapes(snippet)).value
        ELSE fallback

KeyChanges == <<"c", "h", "a", "n", "g", "e", "s">>

KeyTests == <<"t", "e", "s", "t", "s">>

\* the fallback dict generate_patch hands to _parse_json_safe
PatchFallback ==
    ObjectOf(<<>>, <<Member(KeyChanges, <<>>), Member(KeyTests, <<>>)>>)

unwrap_keys ==
    { <<"p", "a", "t", "c", "h">>, <<"r", "e", "s", "u", "l", "t">>,
      <<"o", "u", "t", "p", "u", "t">>, <<"d", "a", "t", "a">> }

alias_changes ==
    << <<"c", "o", "d", "e", "_", "c", "h", "a", "n", "g", "e", "s">>,
       <<"f", "i", "l", "e", "_", "c", "h", "a", "n", "g", "e", "s">>,
       <<"p", "a", "t", "c", "h", "_", "c", "h", "a", "n", "g", "e", "s">>,
       <<"e", "d", "i", "t", "s">>,
       <<"f", "i", "l", "e", "s">> >>

alias_tests ==
    << <<"t", "e", "s", "t", "_", "c", "h", "a", "n", "g", "e", "s">>,
       <<"t", "e", "s", "t", "_", "f", "i", "l", "e", "s">> >>

HasKey(ms, key) == \E i \in 1..Len(ms) : ms[i].key = key

\* payload[key]
Lookup(ms, key) ==
    ms[CHOOSE i \in 1..Len(ms) :
           ms[i].key = key /\ \A j \in (i + 1)..Len(ms) : ms[j].key # key].items

\* payload[lowered[key]], lowered = {str(k).lower(): k for k in payload.keys()}
HasLowered(ms, key) == \E i \in 1..Len(ms) : lower(ms[i].key) = key

LookupLowered(ms, key) ==
    ms[CHOOSE i \in 1..Len(ms) :
           lower(ms[i].key) = key
           /\ \A j \in (i + 1)..Len(ms) : lower(ms[j].key) # key].items

\* the list the payload holds under `key` after the case-insensitive step and
\* the alias step; [found, items]
Resolve(ms, key, aliases) ==
    IF HasKey(ms, key) THEN [found |-> TRUE, items |-> Lookup(ms, key)]
    ELSE IF HasLowered(ms, key) THEN [found |-> TRUE, items |-> LookupLowered(ms, key)]
    ELSE IF \E a \in 1..Len(aliases) : HasKey(ms, aliases[a])
    THEN [found |-> TRUE,
          items |-> Lookup(ms, aliases[CHOOSE a \in 1..Len(aliases) :
                                   HasKey(ms, aliases[a])
                                   /\ \A b \in 1..(a - 1) : ~HasKey(ms, aliases[b])])]
    ELSE [found |-> FALSE, items |-> <<>>]

\* Python truthiness of an item's content
Truthy(content) ==
    \/ content.shape = "str" /\ content.text # <<>>
    \/ content.shape = "list" /\ content.lines # <<>>
    \/ content.shape \in {"mixed", "dict", "num"}

\* what _visit appends for one item dict (nothing when it has no file_path)
visit_item(item) ==
    IF item.file_path # MISSING /\ strip(item.file_path) # <<>>
    THEN << [file_path |-> item.file_path,
             action    |-> lower(dict_get(item.action, Update)),
             content   |-> IF Truthy(item.content) THEN item.content ELSE Opaque("none")] >>
    ELSE <<>>

RECURSIVE visit_items(_)
visit_items(items) ==
    IF items = <<>> THEN <<>>
    ELSE visit_item(Head(items)) \o visit_items(Tail(items))

\* _visit(payload, recovered): every item of every list of the payload, in order
RECURSIVE visit(_)
visit(ms) ==
    IF ms = <<>> THEN <<>>
    ELSE visit_items(Head(ms).items) \o visit(Tail(ms))

\* _normalize_patch_payload(payload): a non-dict comes back unchanged; a dict
\* comes back as [kind |-> "object", changes, tests]
normalize_patch_payload(payload) ==
    IF payload.kind # "object"
    THEN [kind |-> payload.kind, changes |-> <<>>, tests |-> <<>>]
    ELSE LET top == IF payload.wrapper = <<>> \/ payload.wrapper \in unwrap_keys
                    THEN payload.members ELSE <<>>
             c   == Resolve(top, KeyChanges, alias_changes).items
             t   == Resolve(top, KeyTests, alias_tests).items
             recovered == visit(payload.members)
         IN  IF c = <<>> /\ t = <<>> /\ recovered # <<>>
             THEN [kind |-> "object", changes |-> recovered, tests |-> <<>>]
             ELSE [kind |-> "object", changes |-> c, tests |-> t]

----------------------------------------------------------------------------
(* Mismatch detection                                                      *)

missing_markers ==
    << <<"n", "o", "t", " ", "f", "o", "u", "n", "d", " ", "i", "n", " ", "t", "h", "e", " ",
         "p", "r", "o", "v", "i", "d", "e", "d", " ", "c", "o", "d", "e", "b", "a", "s", "e">>,
       <<"c", "a", "n", "n", "o", "t", " ", "f", "i", "n", "d">>,
       <<"d", "o", "e", "s", "n", "'", "t", " ", "h", "a", "v", "e", " ",
         "a", "c", "c", "e", "s", "s">>,
       <<"m", "i", "s", "s", "i", "n", "g">>,
       <<"l", "a", "c", "k", "s", " ", "t", "h", "e">>,
       <<"d", "e", "v", "o", "i", "d", " ", "o", "f">>,
       <<"d", "i", "f", "f", "e", "r", "e", "n", "t", " ", "c", "o", "d", "e", "b", "a", "s", "e">>,
       <<"d", "i", "f", "f", "e", "r", "e", "n", "t", " ",
         "r", "e", "p", "o", "s", "i", "t", "o", "r", "y">> >>

\* variant: the markers sought in the text as given, without .lower()
has_missing_marker_cased(text) ==
    \E i \in 1..Len(missing_markers) : contains(text, missing_markers[i])

\* any(marker in reasoning for marker in missing_markers), reasoning lowercased
has_missing_marker(text) ==
    \E i \in 1..Len(missing_markers) : contains(lower(text), missing_markers[i])

MissingPlaceholder == <<"*", "*", "M", "I", "S", "S", "I", "N", "G", "*", "*">>

\* real_paths of _repo_issue_mismatch: the normalised suspect paths that are
\* concrete and safe
RECURSIVE real_paths(_, _)
real_paths(suspects, repo) ==
    IF suspects = <<>> THEN <<>>
    ELSE LET p == normalize_repo_relative_path(strip(Head(suspects)), repo)
         IN  (IF p # <<>> /\ ~startswith(p, MissingPlaceholder) /\ safe_rel_path(p)
              THEN <<p>> ELSE <<>>) \o real_paths(Tail(suspects), repo)

\* _repo_issue_mismatch(search_result, repo_path, repo_name)[0]
repo_issue_mismatch(text, suspects, tree, repo) ==
    LET real == real_paths(suspects, repo)
        missing_on_disk == SelectSeq(real, LAMBDA p : ~Exists(tree, FsKey(p)))
    IN  IF has_missing_marker(text) THEN TRUE
        ELSE IF suspects # <<>>
        THEN IF real = <<>> THEN TRUE
             ELSE missing_on_disk # <<>> /\ Len(missing_on_disk) = Len(real)
        ELSE FALSE

----------------------------------------------------------------------------
(* git on the working tree                                                 *)

\* variant: the FileNotFoundError of a missing executable is not caught
run_uncaught(exe, exits0) ==
    [returncode |-> IF exe \notin tools THEN 127 ELSE IF exits0 THEN 0 ELSE 1,
     raised |-> exe \notin tools]

\* _run(cmd, cwd) for a command of executable `exe`: its exit status, 127
\* standing for a missing executable; `exits0` tells whether the executable,
\* when installed, exits with status 0.  `raised`: an exception leaves _run
run(exe, exits0) ==
    [returncode |-> IF exe \notin tools THEN 127 ELSE IF exits0 THEN 0 ELSE 1,
     raised |-> FALSE]

\* the tracked paths `git diff -- .` reports: working tree against the index
git_diff(tree, idx) ==
    {p \in DOMAIN idx : p \notin DOMAIN tree \/ tree[p] # idx[p]}

\* the paths `git status --porcelain` reports: modified, staged or untracked
git_status(tree, idx, hd) ==
    {p \in DOMAIN tree \union DOMAIN idx \union DOMAIN hd :
        \/ p \notin DOMAIN tree \/ p \notin DOMAIN idx \/ p \notin DOMAIN hd
        \/ tree[p] # idx[p] \/ idx[p] # hd[p]}

\* _candidate_models(primary_model)
candidate_models(primary_model) == <<primary_model>>

models == candidate_models("model")

----------------------------------------------------------------------------
(* Inputs of the runs explored                                             *)

PathA == <<"a", ".", "p">>

TextA == <<"a", "nl", "a", "nl", "a">>

RepoName == <<"o", "/", "r">>

\* the repository as committed: one tracked source file of three lines
HeadTree == (PathA :> TextA)

\* working trees generate_patch may start on: clean, with an untracked file,
\* with an uncommitted edit of the tracked file
StartTrees ==
    { HeadTree,
      (<<"u">> :> <<"a">>) @@ HeadTree,
      (PathA :> <<"a", "nl", "a", "nl", "a", "a">>) }

\* the index a working tree may start with: as committed, or with the
\* edits of the tracked files staged (`git add -u` was run before)
StartIndexes(tree) ==
    {HeadTree, [p \in DOMAIN HeadTree |-> tree[p]]}

Reasonings ==
    { <<"o", "k">>,
      <<"A", " ", "D", "i", "f", "f", "e", "r", "e", "n", "t", " ",
        "R", "e", "p", "o", "s", "i", "t", "o", "r", "y">>,
      <<"m", "i", "s", "s", "i", "n", "g", "s">> }

Suspects ==
    { <<>>,
      <<PathA>>,
      <<RepoName \o <<"/">> \o PathA>>,
      <<<<"z", ".", "p">>>>,
      <<MissingPlaceholder \o <<" ", "z">>>>,
      <<<<"z", ".", "p">>, PathA>> }

Item(path, action, content) == [file_path |-> path, action |-> action, content |-> content]

Delete == <<"d", "e", "l", "e", "t", "e">>

\* change items a response may carry
ItemEdit      == Item(PathA, Update, TextOf(<<"a", "nl", "a", "nl", "b">>))
ItemPrefixed  == Item(RepoName \o <<"/">> \o PathA, MISSING, LinesOf(<<<<"a">>, <<"b">>>>))
ItemTruncate  == Item(PathA, Update, TextOf(<<"a">>))
ItemWipe      == Item(PathA, Update, TextOf(<<>>))
ItemRecreate  == Item(PathA, Create, TextOf(<<"a">>))
ItemSame      == Item(PathA, Update, TextOf(TextA))
ItemNewTest   == Item(<<"t", "/", "n", ".", "p">>, Create, TextOf(<<"a">>))
ItemDotEnv    == Item(<<"o", "/", "r", "/", ".", "e", "n", "v">>, Create, TextOf(<<"a">>))
ItemToken     == Item(<<"k", "/", "T", "o", "k", "e", "n">>, Create, TextOf(<<"a">>))
ItemTraversal == Item(<<"a", "/", ".", ".", "/", "x">>, Create, TextOf(<<"a">>))
ItemAbsolute  == Item(<<"o", "/", "r", "/", "/", "x", ".", "p">>, Create, TextOf(<<"a">>))
ItemNone      == Item(PathA, Update, Opaque("none"))
ItemDelete    == Item(PathA, Delete, TextOf(<<"b">>))
ItemUnderFile == Item(PathA \o <<"/", "x">>, Create, TextOf(<<"a">>))
ItemNoPath    == Item(MISSING, Update, TextOf(<<"b">>))

Patch(cs, ts) == ObjectOf(<<>>, <<Member(KeyChanges, cs), Member(KeyTests, ts)>>)

Json(v) == <<Tok("lbrace"), [k |-> "members", v |-> v], Tok("rbrace")>>

\* texts call_llm may return
Responses ==
    { Json(Patch(<<i>>, <<>>)) :
        i \in {ItemEdit, ItemPrefixed, ItemTruncate, ItemWipe, ItemRecreate, ItemSame,
               ItemNewTest, ItemDotEnv, ItemToken, ItemTraversal, ItemAbsolute,
               ItemNone, ItemDelete, ItemUnderFile, ItemNoPath} }
    \union
    { Json(Patch(<<ItemEdit>>, <<ItemNewTest>>)),
      Json(Patch(<<ItemToken, ItemEdit>>, <<>>)),
      Json(Patch(<<>>, <<ItemNewTest>>)),
      Json(Patch(<<>>, <<>>)),
      Json(ObjectOf(<<"f", "o", "o">>, <<Member(<<"x">>, <<ItemEdit>>)>>)),
      Json(ObjectOf(<<"p", "a", "t", "c", "h">>,
                    <<Member(<<"E", "d", "i", "t", "s">>, <<ItemEdit>>)>>)),
      <<Tok("prose")>> \o Json(Patch(<<ItemEdit>>, <<>>)) \o <<Tok("prose")>>,
      <<Tok("lbrace"), [k |-> "badesc", v |-> Patch(<<ItemEdit>>, <<>>)], Tok("rbrace")>>,
      <<Tok("lbrace"), Tok("rbrace")>>,
      <<Tok("prose")>>,
      <<Tok("prose"), Tok("rbrace"), Tok("lbrace")>>,
      <<Tok("num")>>,
      <<Tok("lbracket"), Tok("rbracket")>>,
      <<Tok("lbracket")>> \o Json(Patch(<<ItemEdit>>, <<>>)) \o <<Tok("rbracket")>> }

----------------------------------------------------------------------------
(* generate_patch, one action per external interaction                     *)

NoResult ==
    [status |-> "none", error |-> <<>>, keys |-> {}, draft_pr |-> "none",
     push_branch |-> "none", commit_sha |-> 0, changed_files |-> {}, diff |-> {},
     attempted_models |-> <<>>, attempt_debug |-> <<>>]

\* an exception leaves generate_patch: nothing is returned
Raised(exception) == [NoResult EXCEPT !.status = "raised", !.error = <<exception>>]

\* the dict of an early `return`, which carries no attempt data
EarlyFailure(error, keys) ==
    [NoResult EXCEPT !.status = "failed", !.error = error,
                     !.keys = {"status", "error", "draft_pr"} \union keys,
                     !.draft_pr = "not_attempted"]

\* the dict returned for no_changes_generated and branch_failed
LateFailure(error, files, attempted, debug) ==
    [NoResult EXCEPT !.status = "failed", !.error = error,
                     !.keys = {"status", "error", "repo_path", "is_temp_repo", "draft_pr",
                               "changed_files", "attempted_models", "attempt_debug"},
                     !.draft_pr = "not_attempted", !.changed_files = files,
                     !.attempted_models = attempted, !.attempt_debug = debug]

\* variant: the status does not look at the PR outcome
overall_status_ok(pr_status) == "ok"

\* overall_status
overall_status(pr_status) == IF pr_status = "created" THEN "ok" ELSE "partial"

\* the dict `out` built after the push and the draft PR
Outcome(pr_status, push_status) ==
    [status |-> overall_status(pr_status),
     error |-> <<>>,
     keys |-> {"status", "repo_path", "is_temp_repo", "branch", "model_used",
               "attempted_models", "attempt_debug", "commit_sha", "changed_files",
               "diff", "pr_title", "pr_body_markdown", "draft_pr", "push_branch"},
     draft_pr |-> pr_status, push_branch |-> push_status, commit_sha |-> commit_sha,
     changed_files |-> changed, diff |-> diff,
     attempted_models |-> attempted_models, attempt_debug |-> attempt_debug]

Init ==
    /\ pc = "ensure_repo"
    /\ repo_name \in {<<>>, RepoName}
    /\ reasoning \in Reasonings
    /\ suspect_files \in Suspects
    /\ fs \in StartTrees
    /\ index \in StartIndexes(fs)
    /\ head = HeadTree
    /\ cand = 1
    /\ calls = <<>>
    /\ changes = <<>>
    /\ tests = <<>>
    /\ patch = FALSE
    /\ changed = {}
    /\ diff = {}
    /\ written = <<>>
    /\ attempted_models = <<>>
    /\ attempt_debug = <<>>
    /\ vcs = <<>>
    /\ commit_sha = 0
    /\ result = NoResult
    /\ tools \in SUBSET {"git", "gh"}
    /\ args = <<>>
    /\ ret = <<>>
    /\ worker = "idle"
    /\ emitted = <<>>
    /\ ready = <<>>
    /\ queue = <<>>
    /\ stream = <<>>

\* _ensure_repo: the path is resolved, or the clone raises
EnsureRepo ==
    /\ pc = "ensure_repo"
    /\ \E ok \in BOOLEAN :
        IF ok
        THEN /\ pc' = "context"
             /\ UNCHANGED result
        ELSE /\ pc' = "done"
             /\ result' = EarlyFailure(<<"repo_prepare_failed", "e">>, {})
    /\ UNCHANGED <<worker, emitted, ready, queue, stream, tools, args, ret, repo_name, reasoning, suspect_files, fs, index, head, cand, calls,
                   changes, tests, patch, changed, diff, written,
                   attempted_models, attempt_debug, vcs, commit_sha>>

\* context gathering and the mismatch check (both only read the tree)
Context ==
    /\ pc = "context"
    /\ IF repo_issue_mismatch(reasoning, suspect_files, fs, repo_name)
       THEN /\ pc' = "done"
            /\ result' = EarlyFailure(<<"repo_issue_mismatch">>,
                                      {"reason", "repo_path", "is_temp_repo"})
       ELSE /\ pc' = "call_llm"
            /\ UNCHANGED result
    /\ UNCHANGED <<worker, emitted, ready, queue, stream, tools, args, ret, repo_name, reasoning, suspect_files, fs, index, head, cand, calls,
                   changes, tests, patch, changed, diff, written,
                   attempted_models, attempt_debug, vcs, commit_sha>>

\* variant: the pass ends with the exception leaving generate_patch
NextCandidate_propagate(debug, files, attempted) ==
    /\ cand' = cand
    /\ pc' = "done"
    /\ result' = Raised("Exception")

\* the end of one pass of the candidate loop without `break`: the next
\* candidate, or the loop is over and no patch was accepted
NextCandidate(debug, files, attempted) ==
    IF cand < Len(models)
    THEN /\ cand' = cand + 1
         /\ pc' = "call_llm"
         /\ UNCHANGED result
    ELSE /\ cand' = cand
         /\ pc' = "done"
         /\ result' = LateFailure(<<"no_changes_generated">>, files, attempted, debug)

\* what a parsed and normalised response amounts to
Shape(payload) ==
    IF payload.kind # "object" THEN "nonobject"
    ELSE IF payload.changes = <<>> /\ payload.tests = <<>> THEN "empty"
    ELSE "items"

Call(kind, outcome) == [cand |-> cand, kind |-> kind, outcome |-> outcome]

\* variant: `if not changes`, the tests list ignored
needs_repair_changes_only(cs, ts) == cs = <<>>

\* `if (not changes and not tests)`: the repair re-prompt is issued
needs_repair(cs, ts) == cs = <<>> /\ ts = <<>>

\* the first call_llm of a candidate, the parse and the normalisation
CallLLM ==
    /\ pc = "call_llm"
    /\ attempted_models' = Append(attempted_models, models[cand])
    /\ \/ \* call_llm raises
          /\ calls' = Append(calls, Call("first", "raised"))
          /\ attempt_debug' = Append(attempt_debug,
                 [model |-> models[cand], error |-> TRUE, written_files |-> {},
                  diff |-> {}])
          /\ NextCandidate(attempt_debug', changed, attempted_models')
          /\ UNCHANGED <<changes, tests>>
       \/ \E raw \in Responses :
            LET candidate_patch ==
                    normalize_patch_payload(parse_json_safe(raw, PatchFallback))
            IN  /\ calls' = Append(calls, Call("first", Shape(candidate_patch)))
                /\ IF candidate_patch.kind # "object"
                   THEN \* candidate_patch.keys() raises AttributeError
                        /\ pc' = "done"
                        /\ result' = Raised("AttributeError")
                        /\ UNCHANGED <<changes, tests, attempt_debug, cand>>
                   ELSE /\ changes' = candidate_patch.changes
                        /\ tests' = candidate_patch.tests
                        /\ pc' = IF needs_repair(changes', tests')
                                 THEN "repair_call" ELSE "apply"
                        /\ UNCHANGED <<attempt_debug, cand, result>>
    /\ UNCHANGED <<worker, emitted, ready, queue, stream, tools, args, ret, repo_name, reasoning, suspect_files, fs, index, head, patch,
                   changed, diff, written, vcs, commit_sha>>

\* the repair re-prompt: its parsed lists replace the empty ones; an
\* exception (the call, or .get on a non-dict) leaves them empty
RepairCall ==
    /\ pc = "repair_call"
    /\ \/ /\ calls' = Append(calls, Call("repair", "raised"))
          /\ UNCHANGED <<changes, tests>>
       \/ \E raw \in Responses :
            LET repair_patch ==
                    normalize_patch_payload(parse_json_safe(raw, PatchFallback))
            IN  /\ calls' = Append(calls, Call("repair", Shape(repair_patch)))
                /\ IF repair_patch.kind # "object"
                   THEN UNCHANGED <<changes, tests>>
                   ELSE /\ changes' = repair_patch.changes
                        /\ tests' = repair_patch.tests
    /\ pc' = "apply"
    /\ UNCHANGED <<worker, emitted, ready, queue, stream, tools, args, ret, repo_name, reasoning, suspect_files, fs, index, head, cand,
                   patch, changed, diff, written, attempted_models,
                   attempt_debug, vcs, commit_sha, result>>

\* set(changed): the recorded paths as a set (the list is sorted and unique)
Range(s) == {s[i] : i \in 1..Len(s)}

\* variant: `if changed`, the diff not looked at
accepts_written(files, d) == files # {}

\* `if changed and diff.strip()`: the attempt is accepted
accepts(files, d) == files # {} /\ d # {}

\* _write_changes for changes then tests, git diff, git status, the attempt
\* record and the acceptance test
Apply ==
    /\ pc = "apply"
    /\ \E diff_ok \in BOOLEAN :
        LET w1 == write_changes(fs, changes, repo_name)
            w2 == write_changes(w1.tree, tests, repo_name)
            d  == run("git", diff_ok)
        IN  IF w1.raised \/ w2.raised
            THEN \* mkdir or write_text raises OSError
                 /\ fs' = IF w1.raised THEN w1.tree ELSE w2.tree
                 /\ written' = written \o w1.written
                                 \o (IF w1.raised THEN <<>> ELSE w2.written)
                 /\ pc' = "done"
                 /\ result' = Raised("OSError")
                 /\ UNCHANGED <<changed, diff, attempt_debug, patch, cand>>
            ELSE IF d.raised
            THEN /\ fs' = w2.tree
                 /\ written' = written \o w1.written \o w2.written
                 /\ changed' = Range(w1.changed_files) \union Range(w2.changed_files)
                 /\ pc' = "done"
                 /\ result' = Raised("FileNotFoundError")
                 /\ UNCHANGED <<diff, attempt_debug, patch, cand>>
            ELSE /\ fs' = w2.tree
                 /\ written' = written \o w1.written \o w2.written
                 /\ changed' = Range(w1.changed_files) \union Range(w2.changed_files)
                 /\ diff' = IF d.returncode = 0 THEN git_diff(fs', index) ELSE {}
                 /\ attempt_debug' = Append(attempt_debug,
                        [model |-> models[cand], error |-> FALSE,
                         written_files |-> changed', diff |-> diff'])
                 /\ IF accepts(changed', diff')
                    THEN /\ patch' = TRUE
                         /\ pc' = "create_branch"
                         /\ UNCHANGED <<cand, result>>
                    ELSE /\ patch' = patch
                         /\ NextCandidate(attempt_debug', changed', attempted_models)
    /\ UNCHANGED <<worker, emitted, ready, queue, stream, tools, args, ret, repo_name, reasoning, suspect_files, index, head,
                   calls, changes, tests, attempted_models, vcs, commit_sha>>

\* variant: the `except` of the branch step falls through to the commit
after_branch_continue(created) == "commit"

\* the `except` of the branch step returns; otherwise the commit follows
after_branch(created) == IF created THEN "commit" ELSE "done"

\* _create_branch: git rev-parse, then git checkout -b; either may exit
\* non-zero, which raises RuntimeError; the caller's `except Exception`
\* catches that and anything _run lets through
CreateBranch ==
    /\ pc = "create_branch"
    /\ \E rev_ok \in BOOLEAN, checkout_ok \in BOOLEAN :
        LET check == run("git", rev_ok)
            res   == run("git", checkout_ok)
        IN  IF check.raised
            THEN /\ vcs' = vcs \o <<"rev_parse_failed">>
                 /\ pc' = after_branch(FALSE)
                 /\ result' = LateFailure(<<"branch_failed", "FileNotFoundError">>,
                                          changed, attempted_models, attempt_debug)
            ELSE IF check.returncode # 0
            THEN /\ vcs' = vcs \o <<"rev_parse_failed">>
                 /\ pc' = after_branch(FALSE)
                 /\ result' = LateFailure(<<"branch_failed", "Target path is not a git repository">>,
                                          changed, attempted_models, attempt_debug)
            ELSE IF res.raised
            THEN /\ vcs' = vcs \o <<"rev_parse", "checkout_failed">>
                 /\ pc' = after_branch(FALSE)
                 /\ result' = LateFailure(<<"branch_failed", "FileNotFoundError">>,
                                          changed, attempted_models, attempt_debug)
            ELSE IF res.returncode # 0
            THEN /\ vcs' = vcs \o <<"rev_parse", "checkout_failed">>
                 /\ pc' = after_branch(FALSE)
                 /\ result' = LateFailure(<<"branch_failed", "Failed to create branch">>,
                                          changed, attempted_models, attempt_debug)
            ELSE /\ vcs' = vcs \o <<"rev_parse", "checkout">>
                 /\ pc' = after_branch(TRUE)
                 /\ UNCHANGED result
    /\ UNCHANGED <<worker, emitted, ready, queue, stream, tools, args, ret, repo_name, reasoning, suspect_files, fs, index, head,
                   cand, calls, changes, tests, patch, changed, diff, written,
                   attempted_models, attempt_debug, commit_sha>>

\* variant: the commit is made whatever `git status` printed
commits_unchecked(returncode, stdout) == returncode = 0

\* `if status.returncode != 0 or not status.stdout.strip(): return None`,
\* negated: the commit is attempted
commits(returncode, stdout) == returncode = 0 /\ stdout # {}

\* _commit_changes: git add -A, git status --porcelain, git commit,
\* git rev-parse HEAD; the commit id, or None (0)
CommitChanges ==
    /\ pc = "commit"
    /\ \E add_ok \in BOOLEAN, status_ok \in BOOLEAN, commit_ok \in BOOLEAN,
          sha_ok \in BOOLEAN :
        LET add    == run("git", add_ok)
            status == run("git", status_ok)
            commit == run("git", commit_ok)
            sha    == run("git", sha_ok)
        IN  IF add.raised
            THEN /\ vcs' = vcs \o <<"add_failed">>
                 /\ pc' = "done"
                 /\ result' = Raised("FileNotFoundError")
                 /\ UNCHANGED <<index, head, commit_sha>>
            ELSE IF add.returncode # 0
            THEN /\ vcs' = vcs \o <<"add_failed">>
                 /\ pc' = "push"
                 /\ UNCHANGED <<index, head, commit_sha, result>>
            ELSE IF ~commits(status.returncode, git_status(fs, fs, head))
            THEN /\ vcs' = vcs \o <<"add", "status_empty">>
                 /\ index' = fs
                 /\ pc' = "push"
                 /\ UNCHANGED <<head, commit_sha, result>>
            ELSE IF commit.returncode # 0
            THEN /\ vcs' = vcs \o <<"add", "status", "commit_failed">>
                 /\ index' = fs
                 /\ pc' = "push"
                 /\ UNCHANGED <<head, commit_sha, result>>
            ELSE /\ vcs' = vcs \o <<"add", "status", "commit">>
                 /\ index' = fs
                 /\ head' = fs
                 /\ commit_sha' = IF sha.returncode = 0 THEN 1 ELSE 0
                 /\ pc' = "push"
                 /\ UNCHANGED result
    /\ UNCHANGED <<worker, emitted, ready, queue, stream, tools, args, ret, repo_name, reasoning, suspect_files, fs, cand, calls,
                   changes, tests, patch, changed, diff, written, attempted_models,
                   attempt_debug>>

\* variant: the draft PR is attempted whatever the push returned
attempts_pr_always(push_status) == TRUE

\* `if push_result.get("status") == "pushed"`: the draft PR is attempted
attempts_pr(push_status) == push_status = "pushed"

\* push_result.get("status"), from the push step executed
PushStatus(steps) == IF "push" \in Range(steps) THEN "pushed" ELSE "failed"

\* _push_branch; when the push fails the result is built without a PR attempt
PushBranch ==
    /\ pc = "push"
    /\ \E push_ok \in BOOLEAN :
        LET push == run("git", push_ok)
        IN  IF push.raised
            THEN /\ vcs' = vcs \o <<"push_failed">>
                 /\ pc' = "done"
                 /\ result' = Raised("FileNotFoundError")
            ELSE /\ vcs' = vcs \o <<IF push.returncode = 0 THEN "push" ELSE "push_failed">>
                 /\ IF attempts_pr(PushStatus(vcs'))
                    THEN /\ pc' = "draft_pr"
                         /\ UNCHANGED result
                    ELSE /\ pc' = "done"
                         /\ result' = Outcome("failed", PushStatus(vcs'))
    /\ UNCHANGED <<worker, emitted, ready, queue, stream, tools, args, ret, repo_name, reasoning, suspect_files, fs, index, head,
                   cand, calls, changes, tests, patch, changed, diff, written,
                   attempted_models, attempt_debug, commit_sha>>

\* _create_draft_pr: gh --version, then gh pr create --draft
CreateDraftPr ==
    /\ pc = "draft_pr"
    /\ \E version_ok \in BOOLEAN, create_ok \in BOOLEAN :
        LET has_gh == run("gh", version_ok)
            res    == run("gh", create_ok)
        IN  IF has_gh.raised
            THEN /\ vcs' = vcs \o <<"gh_absent">>
                 /\ result' = Raised("FileNotFoundError")
            ELSE IF has_gh.returncode # 0
            THEN /\ vcs' = vcs \o <<"gh_absent">>
                 /\ result' = Outcome("skipped", PushStatus(vcs))
            ELSE IF res.returncode # 0
            THEN /\ vcs' = vcs \o <<"gh_version", "pr_create_failed">>
                 /\ result' = Outcome("failed", PushStatus(vcs))
            ELSE /\ vcs' = vcs \o <<"gh_version", "pr_create">>
                 /\ result' = Outcome("created", PushStatus(vcs))
    /\ pc' = "done"
    /\ UNCHANGED <<worker, emitted, ready, queue, stream, tools, args, ret, repo_name, reasoning, suspect_files, fs, index, head,
                   cand, calls, changes, tests, patch, changed, diff, written,
                   attempted_models, attempt_debug, commit_sha>>

Next ==
    \/ EnsureRepo
    \/ Context
    \/ CallLLM
    \/ RepairCall
    \/ Apply
    \/ CreateBranch
    \/ CommitChanges
    \/ PushBranch
    \/ CreateDraftPr

Spec == Init /\ [][Next]_vars

----------------------------------------------------------------------------
(* _write_changes on its own: one change item applied to a working tree    *)
(* that holds the target file with any short content, or does not hold it  *)

MaxContentLen == 3

\* every text over {a, newline} of at most MaxContentLen characters
Contents == UNION {[1..n -> {"a", "nl"}] : n \in 0..MaxContentLen}

WriteTrees ==
    {(PathA :> c) : c \in Contents} \union {(<<"u">> :> <<"a">>)}

\* the item names the target file; its action is update, create or absent;
\* its content is a string or that string as a list of lines
WriteItems ==
    {Item(PathA, act, cont) :
        act \in {Update, Create, MISSING},
        cont \in {TextOf(c) : c \in Contents}
                 \union {LinesOf(split(c, "nl")) : c \in Contents}}

InitWrite ==
    /\ pc = "write_changes"
    /\ repo_name = RepoName
    /\ reasoning = <<>>
    /\ suspect_files = <<>>
    /\ fs \in WriteTrees
    /\ index = fs
    /\ head = fs
    /\ cand = 1
    /\ calls = <<>>
    /\ changes \in {<<i>> : i \in WriteItems}
    /\ tests = <<>>
    /\ patch = FALSE
    /\ changed = {}
    /\ diff = {}
    /\ written = <<>>
    /\ attempted_models = <<>>
    /\ attempt_debug = <<>>
    /\ vcs = <<>>
    /\ commit_sha = 0
    /\ result = NoResult
    /\ tools = {"git", "gh"}
    /\ args = <<>>
    /\ ret = <<>>
    /\ worker = "idle"
    /\ emitted = <<>>
    /\ ready = <<>>
    /\ queue = <<>>
    /\ stream = <<>>

\* changed = _write_changes(repo_path, changes, em, repo_name)
WriteChanges ==
    /\ pc = "write_changes"
    /\ LET w == write_changes(fs, changes, repo_name)
       IN  /\ fs' = w.tree
           /\ changed' = Range(w.changed_files)
           /\ written' = w.written
           /\ pc' = IF w.raised THEN "raised" ELSE "written"
    /\ UNCHANGED <<worker, emitted, ready, queue, stream, tools, args, ret, repo_name, reasoning, suspect_files, index, head, cand, calls,
                   changes, tests, patch, diff, attempted_models, attempt_debug,
                   vcs, commit_sha, result>>

NextWrite == WriteChanges

SpecWrite == InitWrite /\ [][NextWrite]_vars

----------------------------------------------------------------------------
(* The two _write_changes calls of one attempt (changes, then tests) on    *)
(* their own, over short lists of change items                             *)

MaxItems == 2

\* a source file two directories deep
DeepPath == <<"s", "/", "l", "/", "a", ".", "p">>

\* the working trees an attempt may find: the committed file alone, with a
\* copy of it two directories deep, with a symbolic link to a directory
\* outside the root; the lists hold up to MaxItems change items
InitApply ==
    /\ pc = "apply"
    /\ repo_name = RepoName
    /\ reasoning = <<>>
    /\ suspect_files = <<>>
    /\ fs \in { HeadTree,
                (DeepPath :> TextA) @@ HeadTree,
                (<<"l">> :> LinkOut) @@ HeadTree }
    /\ index = fs
    /\ head = fs
    /\ cand = 1
    /\ calls = <<>>
    /\ changes \in Strings(
          { ItemEdit, ItemPrefixed, ItemWipe, ItemRecreate,
            ItemNewTest, ItemNone,
            Item(<<"t", "/", "n", ".", "p">>, Create, Opaque("mixed")),
            Item(<<"t", "/", "n", ".", "p">>, Create, DictOf("x", TextOf(<<"a">>))),
            Item(DeepPath, Update, TextOf(<<"a", "nl", "a", "nl", "b">>)),
            Item(<<".", ".", "/", "x", ".", "p">>, Create, TextOf(<<"a">>)),
            Item(<<"l", "/", "x", ".", "p">>, Create, TextOf(<<"a">>)) },
          MaxItems)
    /\ tests \in {<<>>, <<ItemNewTest>>, <<ItemEdit>>}
    /\ patch = FALSE
    /\ changed = {}
    /\ diff = {}
    /\ written = <<>>
    /\ attempted_models = <<>>
    /\ attempt_debug = <<>>
    /\ vcs = <<>>
    /\ commit_sha = 0
    /\ result = NoResult
    /\ tools = {"git", "gh"}
    /\ args = <<>>
    /\ ret = <<>>
    /\ worker = "idle"
    /\ emitted = <<>>
    /\ ready = <<>>
    /\ queue = <<>>
    /\ stream = <<>>

\* changed = _write_changes(changes); changed += _write_changes(tests);
\* changed = sorted(set(changed))
ApplyChanges ==
    /\ pc = "apply"
    /\ LET w1 == write_changes(fs, changes, repo_name)
           w2 == write_changes(w1.tree, tests, repo_name)
       IN  IF w1.raised
           THEN /\ fs' = w1.tree
                /\ written' = w1.written
                /\ pc' = "raised"
                /\ UNCHANGED changed
           ELSE /\ fs' = w2.tree
                /\ written' = w1.written \o w2.written
                /\ pc' = IF w2.raised THEN "raised" ELSE "applied"
                /\ changed' = IF w2.raised THEN changed
                              ELSE Range(w1.changed_files) \union Range(w2.changed_files)
    /\ UNCHANGED <<worker, emitted, ready, queue, stream, tools, args, ret, repo_name, reasoning, suspect_files, index, head, cand,
                   calls, changes, tests, patch, diff, attempted_models, attempt_debug,
                   vcs, commit_sha, result>>

SpecApply == InitApply /\ [][ApplyChanges]_vars

----------------------------------------------------------------------------
(* The helper functions on their own: `args` holds the arguments of the    *)
(* call, `ret` the value returned, the variables of generate_patch rest    *)

\* no run of generate_patch is in progress
NoRun ==
    /\ repo_name = RepoName
    /\ reasoning = <<>>
    /\ suspect_files = <<>>
    /\ fs = HeadTree
    /\ index = fs
    /\ head = fs
    /\ cand = 1
    /\ calls = <<>>
    /\ changes = <<>>
    /\ tests = <<>>
    /\ patch = FALSE
    /\ changed = {}
    /\ diff = {}
    /\ written = <<>>
    /\ attempted_models = <<>>
    /\ attempt_debug = <<>>
    /\ vcs = <<>>
    /\ commit_sha = 0
    /\ result = NoResult
    /\ tools = {"git", "gh"}

MaxPathLen == 5

MaxRepoLen == 3

\* the characters paths and repository names are made of: a letter, the
\* dot and the separator
PathChars == {"a", ".", "/"}

\* _normalize_repo_relative_path(path, repo_name) is called with a path as
\* the model or the search tool gave it, or with that path prefixed with
\* the repository name
InitNormalize ==
    /\ pc = "normalize"
    /\ NoRun
    /\ worker = "idle"
    /\ emitted = <<>>
    /\ ready = <<>>
    /\ queue = <<>>
    /\ stream = <<>>
    /\ \E rel \in Strings(PathChars, MaxPathLen), rn \in Strings(PathChars, MaxRepoLen),
          qualified \in BOOLEAN :
            args = <<IF qualified THEN rn \o <<"/">> \o rel ELSE rel, rn>>
    /\ ret = <<>>

NormalizePath ==
    /\ pc = "normalize"
    /\ ret' = <<normalize_repo_relative_path(args[1], args[2])>>
    /\ pc' = "normalized"
    /\ UNCHANGED <<worker, emitted, ready, queue, stream, tools, args, repo_name, reasoning, suspect_files, fs, index, head,
                   cand, calls, changes, tests, patch, changed, diff, written,
                   attempted_models, attempt_debug, vcs, commit_sha, result>>

NextNormalize == NormalizePath

SpecNormalize == InitNormalize /\ [][NextNormalize]_vars

----------------------------------------------------------------------------
(* _parse_json_safe of the four agents, each on its own.  Besides the      *)
(* tokens above, the members of an object may be                           *)
(*   "commented" : well-formed members with a // or /* */ comment          *)
(*   "trailing"  : well-formed members followed by a trailing comma        *)
(*   "rawnl"     : well-formed members with a raw newline inside a string  *)
(*   "questions" : text no stage repairs, holding a "questions": [..] list *)

\* the value Python's None
None == [kind |-> "None", wrapper |-> <<>>, members |-> <<>>]

\* codebase_search_agent._strip_json_comments
strip_json_comments(text) ==
    [i \in 1..Len(text) |->
        IF text[i].k = "commented" THEN [text[i] EXCEPT !.k = "members"] ELSE text[i]]

\* codebase_search_agent._remove_trailing_commas
remove_trailing_commas(text) ==
    [i \in 1..Len(text) |->
        IF text[i].k = "trailing" THEN [text[i] EXCEPT !.k = "members"] ELSE text[i]]

\* triage_agent._escape_control_chars_in_strings
escape_control_chars_in_strings(text) ==
    [i \in 1..Len(text) |->
        IF text[i].k = "rawnl" THEN [text[i] EXCEPT !.k = "members"] ELSE text[i]]

KeyQuestions == <<"q", "u", "e", "s", "t", "i", "o", "n", "s">>

KeyGrepPatterns == <<"g", "r", "e", "p", "_", "p", "a", "t", "t", "e", "r", "n", "s">>

\* codebase_search_agent._extract_list_strings(raw, key): the strings of the
\* first `"key": [...]` of the text
extract_list_strings(raw, key) ==
    IF key = KeyQuestions /\ \E i \in 1..Len(raw) : raw[i].k = "questions"
    THEN <<"q">>
    ELSE <<>>

\* codebase_search_agent._parse_json_safe
search_parse_json_safe(raw, fallback) ==
    LET start    == find_lbrace(raw)
        end      == rfind_rbrace(raw)
        snippet  == SubSeq(raw, start, end)
        cleaned  == remove_trailing_commas(strip_json_comments(snippet))
        fixed    == fix_escapes(cleaned)
        questions == extract_list_strings(raw, KeyQuestions)
        patterns  == extract_list_strings(raw, KeyGrepPatterns)
        \* `fallback or {}`
        default  == IF fallback = None \/ fallback = ObjectOf(<<>>, <<>>)
                    THEN ObjectOf(<<>>, <<>>) ELSE fallback
    IN  IF json_loads(raw).ok THEN json_loads(raw).value
        ELSE IF start = 0 \/ end < start THEN default
        ELSE IF json_loads(snippet).ok THEN json_loads(snippet).value
        ELSE IF json_loads(cleaned).ok THEN json_loads(cleaned).value
        ELSE IF json_loads(fixed).ok THEN json_loads(fixed).value
        ELSE IF questions # <<>> \/ patterns # <<>>
        THEN ObjectOf(<<>>, <<Member(KeyQuestions, questions),
                              Member(KeyGrepPatterns, patterns)>>)
        ELSE default

\* doc_agent._parse_json_safe: the body ends after the test of start and
\* end (the next `def` follows), so the function falls off its end
doc_parse_json_safe(raw_text, fallback) ==
    LET start == find_lbrace(raw_text)
        end   == rfind_rbrace(raw_text)
    IN  IF json_loads(raw_text).ok THEN json_loads(raw_text).value
        ELSE IF start = 0 \/ end < start THEN fallback
        ELSE None

\* triage_agent._parse_json_safe: [raised, value]
triage_parse_json_safe(raw_text) ==
    LET start   == find_lbrace(raw_text)
        end     == rfind_rbrace(raw_text)
        snippet == SubSeq(raw_text, start, end)
        cleaned == remove_trailing_commas(strip_json_comments(snippet))
        fixed   == fix_escapes(cleaned)
        candidates == <<snippet, cleaned, fixed, escape_control_chars_in_strings(fixed)>>
        parses  == {i \in 1..Len(candidates) : json_loads(candidates[i]).ok}
        first   == CHOOSE i \in parses : \A j \in parses : i <= j
    IN  IF json_loads(raw_text).ok
        THEN [raised |-> FALSE, value |-> json_loads(raw_text).value]
        ELSE IF start = 0 \/ end < start THEN [raised |-> TRUE, value |-> None]
        ELSE IF parses # {}
        THEN [raised |-> FALSE, value |-> json_loads(candidates[first]).value]
        ELSE [raised |-> TRUE, value |-> None]

MaxBefore == 2

MaxAfter == 1

\* an object of the responses
ObjectA == ObjectOf(<<>>, <<Member(KeyChanges, <<>>)>>)

\* what may stand between the braces of the object of a response
Inner ==
    {[k |-> kind, v |-> ObjectA] :
        kind \in {"members", "badesc", "commented", "trailing", "rawnl", "questions"}}

\* the JSON-like part of a response: none, a number, the empty object, an
\* object in need of no repair or of one
Bodies ==
    {<<>>, <<Tok("num")>>, <<Tok("lbrace"), Tok("rbrace")>>}
        \union {<<Tok("lbrace"), t, Tok("rbrace")>> : t \in Inner}

\* what the model may write around it: prose, stray braces and brackets
Around == {Tok("prose"), Tok("lbrace"), Tok("rbrace"), Tok("lbracket"), Tok("rbracket")}

RawTexts ==
    {pre \o body \o post :
        pre \in Strings(Around, MaxBefore), body \in Bodies,
        post \in Strings(Around, MaxAfter)}

Agents == {"patch_agent", "codebase_search_agent", "doc_agent", "triage_agent"}

\* args = <<agent, raw_text, fallback>>
InitParse ==
    /\ pc = "parse"
    /\ NoRun
    /\ worker = "idle"
    /\ emitted = <<>>
    /\ ready = <<>>
    /\ queue = <<>>
    /\ stream = <<>>
    /\ \E a \in Agents, raw \in RawTexts, fb \in {PatchFallback, ObjectOf(<<>>, <<>>)} :
          args = <<a, raw, fb>>
    /\ ret = <<>>

\* the call returns v
Returns(v) ==
    /\ ret' = <<v>>
    /\ pc' = "returned"
    /\ UNCHANGED <<worker, emitted, ready, queue, stream, tools, args, repo_name, reasoning, suspect_files, fs, index, head,
                   cand, calls, changes, tests, patch, changed, diff, written,
                   attempted_models, attempt_debug, vcs, commit_sha, result>>

\* the call raises
Raises(exception) ==
    /\ ret' = <<exception>>
    /\ pc' = "raised"
    /\ UNCHANGED <<worker, emitted, ready, queue, stream, tools, args, repo_name, reasoning, suspect_files, fs, index, head,
                   cand, calls, changes, tests, patch, changed, diff, written,
                   attempted_models, attempt_debug, vcs, commit_sha, result>>

ParsePatch ==
    /\ pc = "parse"
    /\ args[1] = "patch_agent"
    /\ Returns(parse_json_safe(args[2], args[3]))

ParseSearch ==
    /\ pc = "parse"
    /\ args[1] = "codebase_search_agent"
    /\ Returns(search_parse_json_safe(args[2], args[3]))

ParseDoc ==
    /\ pc = "parse"
    /\ args[1] = "doc_agent"
    /\ Returns(doc_parse_json_safe(args[2], args[3]))

ParseTriage ==
    /\ pc = "parse"
    /\ args[1] = "triage_agent"
    /\ LET r == triage_parse_json_safe(args[2])
       IN  IF r.raised THEN Raises("ValueError") ELSE Returns(r.value)

NextParse == ParsePatch \/ ParseSearch \/ ParseDoc \/ ParseTriage

SpecParse == InitParse /\ [][NextParse]_vars

----------------------------------------------------------------------------
(* Context assembly on its own.  A file is named by a number; a context    *)
(* entry is [file_path, content_len].                                       *)
(* args = <<suspect_files, relevant_docs, discovered, missing, size>>:      *)
(* the evidence lists, the list _discover_candidate_files returns, the      *)
(* files absent from the working tree and the size of every file present.   *)

MAX_CONTEXT_FILES == 12

MAX_FILE_CHARS == 12000

MaxSuspects == 11

MaxDocs == 3

MaxDiscovered == 2

\* the first occurrences of the list, in order
RECURSIVE dedup(_, _)
dedup(files, seen) ==
    IF files = <<>> THEN <<>>
    ELSE IF Head(files) \in seen THEN dedup(Tail(files), seen)
    ELSE <<Head(files)>> \o dedup(Tail(files), seen \union {Head(files)})

\* _gather_context_files(repo_path, search_result, doc_result, repo_name)
gather_context_files(suspects, docs, missing, size) ==
    LET files == SubSeq(suspects, 1, IF Len(suspects) < 10 THEN Len(suspects) ELSE 10)
                 \o SubSeq(docs, 1, IF Len(docs) < 6 THEN Len(docs) ELSE 6)
        dd    == dedup(files, {})
        first == SubSeq(dd, 1, IF Len(dd) < MAX_CONTEXT_FILES THEN Len(dd) ELSE MAX_CONTEXT_FILES)
        kept  == SelectSeq(first, LAMBDA f : f \notin missing)
    IN  [i \in 1..Len(kept) |->
            [file_path |-> kept[i],
             content_len |-> IF size < MAX_FILE_CHARS THEN size ELSE MAX_FILE_CHARS]]

\* the loop over `discovered` in generate_patch: a file not among the
\* gathered ones is appended, and the loop breaks once the list has
\* MAX_CONTEXT_FILES entries
RECURSIVE add_discovered(_, _, _, _)
add_discovered(context_files, discovered, existing_paths, size) ==
    IF discovered = <<>> THEN context_files
    ELSE IF Head(discovered) \in existing_paths
    THEN add_discovered(context_files, Tail(discovered), existing_paths, size)
    ELSE LET appended ==
                 Append(context_files,
                        [file_path |-> Head(discovered),
                         content_len |-> IF size < MAX_FILE_CHARS THEN size ELSE MAX_FILE_CHARS])
         IN  IF Len(appended) >= MAX_CONTEXT_FILES THEN appended
             ELSE add_discovered(appended, Tail(discovered), existing_paths, size)

InitContext ==
    /\ pc = "gather_context"
    /\ NoRun
    /\ worker = "idle"
    /\ emitted = <<>>
    /\ ready = <<>>
    /\ queue = <<>>
    /\ stream = <<>>
    /\ \E s \in 0..MaxSuspects, m \in 0..MaxDocs, d \in 0..MaxDiscovered,
          shared \in BOOLEAN, fresh \in BOOLEAN, missing \in {{}, {1}},
          size \in {0, MAX_FILE_CHARS, MAX_FILE_CHARS + 1} :
            LET from == IF shared THEN s ELSE s + 1
                at   == IF fresh THEN s + m + 1 ELSE 2
            IN  args = <<[i \in 1..s |-> i], [i \in 1..m |-> from + i - 1],
                         [i \in 1..d |-> at + i - 1], missing, size>>
    /\ ret = <<>>

\* context_files = _gather_context_files(...), then the discovered files
GatherContext ==
    /\ pc = "gather_context"
    /\ LET context_files == gather_context_files(args[1], args[2], args[4], args[5])
           existing_paths == {context_files[i].file_path : i \in 1..Len(context_files)}
       IN  ret' = add_discovered(context_files, args[3], existing_paths, args[5])
    /\ pc' = "build_prompt"
    /\ UNCHANGED <<worker, emitted, ready, queue, stream, tools, args, repo_name, reasoning, suspect_files, fs, index, head,
                   cand, calls, changes, tests, patch, changed, diff, written,
                   attempted_models, attempt_debug, vcs, commit_sha, result>>

SpecContext == InitContext /\ [][GatherContext]_vars

----------------------------------------------------------------------------
(* The comment and trailing-comma cleanup of the JSON repair, character by *)
(* character.  args = <<text>>; ret = <<kept>>, the positions of the text   *)
(* that the cleaned text is made of, in order.                              *)

MaxJsonLen == 4

\* the scan of _strip_json_comments from position i on: for every position
\* "str" (appended inside or as the quote of a string literal), "code"
\* (appended outside) or "comment" (skipped)
RECURSIVE scan_comments(_, _, _, _)
scan_comments(text, i, in_str, escape) ==
    LET n   == Len(text)
        ch  == text[i]
        nxt == IF i + 1 <= n THEN text[i + 1] ELSE ""
        \* the newline that ends a // comment, n + 1 when there is none
        eol == IF \E j \in (i + 2)..n : text[j] = "nl"
               THEN CHOOSE j \in (i + 2)..n :
                        text[j] = "nl" /\ \A k \in (i + 2)..(j - 1) : text[k] # "nl"
               ELSE n + 1
        closes == {j \in (i + 2)..(n - 1) : text[j] = "*" /\ text[j + 1] = "/"}
        \* the position after the */ that ends a block comment
        after == IF closes = {} THEN n + 1
                 ELSE (CHOOSE j \in closes : \A k \in closes : j <= k) + 2
    IN  IF i > n THEN <<>>
        ELSE IF in_str
        THEN <<"str">> \o scan_comments(text, i + 1,
                                        ~(~escape /\ ch # "backslash" /\ ch = "quote"),
                                        ~escape /\ ch = "backslash")
        ELSE IF ch = "quote"
        THEN <<"str">> \o scan_comments(text, i + 1, TRUE, FALSE)
        ELSE IF ch = "/" /\ nxt = "/"
        THEN [k \in 1..(eol - i) |-> "comment"] \o scan_comments(text, eol, FALSE, FALSE)
        ELSE IF ch = "/" /\ nxt = "*"
        THEN [k \in 1..(after - i) |-> "comment"] \o scan_comments(text, after, FALSE, FALSE)
        ELSE <<"code">> \o scan_comments(text, i + 1, FALSE, FALSE)

\* _strip_json_comments(text): the positions appended to `out`
strip_json_comments_kept(text) ==
    LET class == scan_comments(text, 1, FALSE, FALSE)
    IN  SelectSeq([i \in 1..Len(text) |-> i], LAMBDA i : class[i] # "comment")

\* re.sub(r",\s*([}\]])", r"\1", .) on the characters at the positions
\* `kept`, from the k-th on: a comma, any whitespace and a closing brace
\* are replaced by the brace
RECURSIVE remove_trailing_commas_kept(_, _, _)
remove_trailing_commas_kept(text, kept, k) ==
    LET n == Len(kept)
        ends == {q \in (k + 1)..n :
                    /\ text[kept[q]] = "}"
                    /\ \A j \in (k + 1)..(q - 1) : text[kept[j]] \in Whitespace}
        q == CHOOSE e \in ends : TRUE
    IN  IF k > n THEN <<>>
        ELSE IF text[kept[k]] = "," /\ ends # {}
        THEN <<kept[q]>> \o remove_trailing_commas_kept(text, kept, q + 1)
        ELSE <<kept[k]>> \o remove_trailing_commas_kept(text, kept, k + 1)

InitCleanup ==
    /\ pc = "cleanup"
    /\ NoRun
    /\ worker = "idle"
    /\ emitted = <<>>
    /\ ready = <<>>
    /\ queue = <<>>
    /\ stream = <<>>
    \* texts over the characters that matter to the cleanup: the quote, the
    \* backslash, the comment and comma syntax, a closing brace, the newline
    \* and a letter
    /\ \E text \in Strings({"quote", "backslash", "/", "*", ",", "}", "nl", "a"},
                             MaxJsonLen) : args = <<text>>
    /\ ret = <<>>

\* cleaned = _remove_trailing_commas(_strip_json_comments(snippet))
Cleanup ==
    /\ pc = "cleanup"
    /\ ret' = <<remove_trailing_commas_kept(args[1], strip_json_comments_kept(args[1]), 1)>>
    /\ pc' = "cleaned"
    /\ UNCHANGED <<worker, emitted, ready, queue, stream, tools, args, repo_name, reasoning, suspect_files, fs, index, head,
                   cand, calls, changes, tests, patch, changed, diff, written,
                   attempted_models, attempt_debug, vcs, commit_sha, result>>

SpecCleanup == InitCleanup /\ [][Cleanup]_vars

----------------------------------------------------------------------------
(* The mismatch check on its own: Context started on repositories that     *)
(* hold a nested file or a dot file, with up to MaxNamed suspect files      *)

MaxNamed == 2

InitMismatch ==
    /\ pc = "context"
    /\ repo_name = RepoName
    /\ reasoning \in Reasonings
    /\ suspect_files \in Strings({PathA, DeepPath, <<".", "e">>, <<"z", ".", "p">>,
                                  MissingPlaceholder \o <<" ", "z">>}, MaxNamed)
    /\ fs \in {HeadTree, (DeepPath :> TextA), (<<".", "e">> :> TextA) @@ HeadTree}
    /\ index = fs
    /\ head = fs
    /\ cand = 1
    /\ calls = <<>>
    /\ changes = <<>>
    /\ tests = <<>>
    /\ patch = FALSE
    /\ changed = {}
    /\ diff = {}
    /\ written = <<>>
    /\ attempted_models = <<>>
    /\ attempt_debug = <<>>
    /\ vcs = <<>>
    /\ commit_sha = 0
    /\ result = NoResult
    /\ tools = {"git", "gh"}
    /\ args = <<>>
    /\ ret = <<>>
    /\ worker = "idle"
    /\ emitted = <<>>
    /\ ready = <<>>
    /\ queue = <<>>
    /\ stream = <<>>

SpecMismatch == InitMismatch /\ [][Context]_vars

----------------------------------------------------------------------------
(* The /investigate endpoint: the thread run_pipeline hands events to the  *)
(* event loop, the event loop puts them on the queue of the request, and    *)
(* event_stream takes them off the queue and yields them to the client      *)

MaxEvents == 3

\* variant: the callback is put in front of the scheduled ones
call_soon_threadsafe_front(callbacks, arg) == <<arg>> \o callbacks

\* loop.call_soon_threadsafe(queue.put_nowait, arg): the callback is appended
\* to the loop's list of scheduled callbacks
call_soon_threadsafe(callbacks, arg) == Append(callbacks, arg)

\* a request has come in: the queue is empty, the thread is started and the
\* response streams event_stream()
InitStream ==
    /\ pc = "event_stream"
    /\ NoRun
    /\ worker = "pipeline"
    /\ emitted = <<>>
    /\ ready = <<>>
    /\ queue = <<>>
    /\ stream = <<>>
    /\ args = <<>>
    /\ ret = <<>>

\* an agent calls emitter.emit inside pipeline.invoke: the event dict is built
\* and handed to on_event
Emit ==
    /\ worker = "pipeline"
    /\ Len(emitted) < MaxEvents
    /\ \E type \in {"status", "error"} :
        LET event == [agent |-> "patch_generation", type |-> type, step |-> "s",
                      n |-> Len(emitted) + 1]
        IN  /\ emitted' = Append(emitted, event)
            /\ ready' = call_soon_threadsafe(ready, event)
    /\ UNCHANGED <<pc, repo_name, reasoning, suspect_files, fs, index, head, cand,
                   calls, changes, tests, patch, changed, diff, written,
                   attempted_models, attempt_debug, vcs, commit_sha, result, tools,
                   args, ret, worker, queue, stream>>

\* pipeline.invoke returns and the `complete` event is handed over, or it
\* raises and the `except Exception` branch hands over the `error` event
PipelineEnds ==
    /\ worker = "pipeline"
    /\ \E ok \in BOOLEAN :
        IF ok
        THEN /\ ready' = call_soon_threadsafe(ready,
                    [agent |-> "pipeline", type |-> "complete", step |-> "done", n |-> 0])
             /\ worker' = "returned"
        ELSE /\ ready' = call_soon_threadsafe(ready,
                    [agent |-> "pipeline", type |-> "error", step |-> "fatal", n |-> 0])
             /\ worker' = "raised"
    /\ UNCHANGED <<pc, repo_name, reasoning, suspect_files, fs, index, head, cand,
                   calls, changes, tests, patch, changed, diff, written,
                   attempted_models, attempt_debug, vcs, commit_sha, result, tools,
                   args, ret, emitted, queue, stream>>

\* the `finally` branch hands over the end-of-stream sentinel None and the
\* thread ends
Finally ==
    /\ worker \in {"returned", "raised"}
    /\ ready' = call_soon_threadsafe(ready, None)
    /\ worker' = "finished"
    /\ UNCHANGED <<pc, repo_name, reasoning, suspect_files, fs, index, head, cand,
                   calls, changes, tests, patch, changed, diff, written,
                   attempted_models, attempt_debug, vcs, commit_sha, result, tools,
                   args, ret, emitted, queue, stream>>

\* the event loop runs the oldest scheduled callback: queue.put_nowait(arg)
RunCallback ==
    /\ ready # <<>>
    /\ queue' = Append(queue, Head(ready))
    /\ ready' = Tail(ready)
    /\ UNCHANGED <<pc, repo_name, reasoning, suspect_files, fs, index, head, cand,
                   calls, changes, tests, patch, changed, diff, written,
                   attempted_models, attempt_debug, vcs, commit_sha, result, tools,
                   args, ret, worker, emitted, stream>>

\* event_stream: `event = await queue.get()`; None ends the generator, any
\* other event is yielded as one `data:` frame
EventStream ==
    /\ pc = "event_stream"
    /\ queue # <<>>
    /\ queue' = Tail(queue)
    /\ IF Head(queue) = None
       THEN /\ pc' = "closed"
            /\ UNCHANGED stream
       ELSE /\ stream' = Append(stream, Head(queue))
            /\ UNCHANGED pc
    /\ UNCHANGED <<repo_name, reasoning, suspect_files, fs, index, head, cand,
                   calls, changes, tests, patch, changed, diff, written,
                   attempted_models, attempt_debug, vcs, commit_sha, result, tools,
                   args, ret, worker, emitted, ready>>

\* the event loop keeps running scheduled callbacks and resumes the
\* generator that waits on the queue
SpecStream ==
    /\ InitStream
    /\ [][Emit \/ PipelineEnds \/ Finally \/ RunCallback \/ EventStream]_vars
    /\ WF_vars(RunCallback)
    /\ WF_vars(EventStream)

----------------------------------------------------------------------------
(* Properties of generate_patch                                            *)

\* generate_patch has returned a dict
Returned == pc = "done" /\ result.status \in {"ok", "partial", "failed"}

\* an attempt that ended with at least one written file and a non-empty diff
UsableAttempt(e) == ~e.error /\ e.written_files # {} /\ e.diff # {}

\* some attempt of this run produced a usable diff
UsableDiffProduced ==
    \E i \in 1..Len(attempt_debug) : UsableAttempt(attempt_debug[i])

\* `git checkout -b` has succeeded in this run
BranchCreated == \E i \in 1..Len(vcs) : vcs[i] = "checkout"

\* a step of the commit, push or draft-PR stage of the workflow
LaterSteps ==
    {"add_failed", "add", "status_empty", "status", "commit_failed", "commit",
     "push", "push_failed", "gh_absent", "gh_version", "pr_create_failed", "pr_create"}

(* C1, as stated: in every returned result, status is ok exactly when      *)
(* draft_pr.status is created; status is partial when a diff was produced  *)
(* and a branch created but the draft PR was not created; status is failed *)
(* only when no usable diff was ever produced.                             *)
C1_StatusRuleAsStated ==
    Returned =>
        /\ (result.status = "ok") <=> (result.draft_pr = "created")
        /\ (UsableDiffProduced /\ BranchCreated /\ result.draft_pr # "created")
               => result.status = "partial"
        /\ result.status = "failed" => ~UsableDiffProduced

(* C1, amended: in every returned result, status is ok exactly when        *)
(* draft_pr.status is created; status is partial when a diff was produced  *)
(* and a branch created but the draft PR was not created; status is failed *)
(* only when no usable diff was ever produced or the branch could not be   *)
(* created.                                                                *)
C1_StatusRule ==
    Returned =>
        /\ (result.status = "ok") <=> (result.draft_pr = "created")
        /\ (UsableDiffProduced /\ BranchCreated /\ result.draft_pr # "created")
               => result.status = "partial"
        /\ result.status = "failed" => (~UsableDiffProduced \/ ~BranchCreated)

\* a run returned failed although an attempt had produced a usable diff
C1_FailedWithUsableDiff ==
    Returned /\ result.status = "failed" /\ UsableDiffProduced

(* C2: if no candidate's attempt ends with at least one written file and a *)
(* non-empty diff, generate_patch returns failed / no_changes_generated    *)
(* with attempted_models and attempt_debug, never ok or partial, and no    *)
(* branch, commit, push or PR step is run.                                 *)
C2_NoChangesGenerated ==
    (pc = "done" /\ attempted_models # <<>> /\ ~UsableDiffProduced) =>
        /\ result.status = "failed"
        /\ result.error = <<"no_changes_generated">>
        /\ {"attempted_models", "attempt_debug"} \subseteq result.keys
        /\ result.attempted_models = attempted_models
        /\ result.attempt_debug = attempt_debug
        /\ vcs = <<>>

\* the reasoning text holds one of the marker phrases, in any letter case
C3_MarkerInReasoning ==
    \E i \in 1..Len(missing_markers) : contains(lower(reasoning), missing_markers[i])

(* C3, as stated: whenever the reasoning text contains a marker phrase,    *)
(* generate_patch returns failed / repo_issue_mismatch, makes no model     *)
(* call and writes no file.                                                *)
C3_MarkerMismatchAsStated ==
    (C3_MarkerInReasoning /\ pc = "done") =>
        /\ result.status = "failed"
        /\ result.error = <<"repo_issue_mismatch">>
        /\ calls = <<>>
        /\ written = <<>>

\* _ensure_repo has returned a repository path in this run
C3_RepoPrepared ==
    /\ pc # "ensure_repo"
    /\ ~(pc = "done" /\ result.error # <<>> /\ Head(result.error) = "repo_prepare_failed")

(* C3, amended: whenever the reasoning text contains a marker phrase and   *)
(* the repository has been prepared, generate_patch returns failed /       *)
(* repo_issue_mismatch; and whenever the reasoning text contains a marker  *)
(* phrase, no model call is made and no file is written.                   *)
C3_MarkerMismatch ==
    C3_MarkerInReasoning =>
        /\ calls = <<>>
        /\ written = <<>>
        /\ (C3_RepoPrepared /\ pc # "context") =>
              /\ pc = "done"
              /\ result.status = "failed"
              /\ result.error = <<"repo_issue_mismatch">>

\* a run whose reasoning holds a marker in capitals ended as a mismatch
C3_MarkerRunEnded ==
    /\ C3_MarkerInReasoning
    /\ ~(\E i \in 1..Len(missing_markers) : contains(reasoning, missing_markers[i]))
    /\ pc = "done"
    /\ result.error = <<"repo_issue_mismatch">>

\* the number of lines of a text
C4_Lines(t) == count(t, "nl") + 1

\* new/old is below 0.35 both in characters and in lines
C4_BothRatiosBelow(old, new) ==
    /\ Len(new) * 100 < 35 * Len(old)
    /\ C4_Lines(new) * 100 < 35 * C4_Lines(old)

(* C4: for an existing non-empty target file and an `update` item with     *)
(* text-coercible content, _write_changes refuses the write (file content  *)
(* unmodified, path not recorded as changed) when both the length ratio    *)
(* and the line ratio are below 0.35, and writes when either ratio is at   *)
(* least 0.35 and the content differs.                                     *)
C4_TruncationGuard ==
    pc = "written" =>
        \A i \in 1..Len(changes) :
            LET new == coerce_content_to_text(changes[i].content)
            IN  (/\ PathA \in DOMAIN head
                 /\ Len(head[PathA]) > 0
                 /\ changes[i].action = Update
                 /\ new.ok)
                => IF C4_BothRatiosBelow(head[PathA], new.text)
                   THEN fs[PathA] = head[PathA] /\ PathA \notin changed
                   ELSE new.text # head[PathA]
                            => fs[PathA] = new.text /\ PathA \in changed

\* not empty, no leading "/", no ".." segment
C5_RepoRelative(path) ==
    /\ path # <<>>
    /\ Head(path) # "/"
    /\ \A i \in 1..Len(split(path, "/")) : split(path, "/")[i] # <<".", ".">>

C5_SecretWords ==
    { <<".", "e", "n", "v">>, <<"s", "e", "c", "r", "e", "t">>,
      <<"c", "r", "e", "d", "e", "n", "t", "i", "a", "l">>, <<"t", "o", "k", "e", "n">>,
      <<"p", "r", "i", "v", "a", "t", "e", "_", "k", "e", "y">>,
      <<"i", "d", "_", "r", "s", "a">> }

\* the lowercased path contains one of the secret words
C5_SecretLike(path) == \E w \in C5_SecretWords : contains(lower(path), w)

(* C5: in every returned result each path of changed_files exists on disk  *)
(* under the repository root, is repo-relative and is not secret-like; no  *)
(* item whose normalized path is unsafe or secret-like is ever written.    *)
C5_ChangedFilesSafe ==
    /\ Returned =>
          \A f \in result.changed_files :
              /\ FsKey(f) \in DOMAIN fs
              /\ C5_RepoRelative(f)
              /\ ~C5_SecretLike(f)
    /\ \A i \in 1..Len(written) :
          C5_RepoRelative(written[i]) /\ ~C5_SecretLike(written[i])

\* a result lists a changed file, after a response that named a secret-like
\* path next to it
C5_ResultWithChangedFiles ==
    /\ Returned
    /\ result.changed_files # {}
    /\ \E i \in 1..Len(changes) :
          C5_SecretLike(normalize_repo_relative_path(
                            strip(dict_get(changes[i].file_path, <<>>)), repo_name))

(* C6: whatever text the completion backend returns (unparseable, a JSON   *)
(* object, or JSON that is not an object) generate_patch does not raise:   *)
(* a response that is not an object is treated as empty, which triggers    *)
(* the repair re-prompt, and the caller receives a result with a status.   *)
C6_BackendTextNeverRaises ==
    /\ result.error # <<"AttributeError">>
    /\ \A i \in 1..Len(calls) :
          (calls[i].kind = "first" /\ calls[i].outcome = "nonobject") =>
              \/ pc = "repair_call"
              \/ \E j \in (i + 1)..Len(calls) :
                    calls[j].kind = "repair" /\ calls[j].cand = calls[i].cand

(* C7: every returned result has a `status`; every failed result carries   *)
(* an `error` code and a human-readable `reason`; `attempt_debug` is in    *)
(* every result.                                                           *)
C7_StructuredResult ==
    Returned =>
        /\ "status" \in result.keys
        /\ result.status = "failed" => {"error", "reason"} \subseteq result.keys
        /\ "attempt_debug" \in result.keys

\* the calls made for candidate c, in order
C8_CallsOf(c) == SelectSeq(calls, LAMBDA e : e.cand = c)

(* C8: per candidate the model is called once; one repair re-prompt is     *)
(* issued if and only if changes and tests are both empty after the first  *)
(* response is normalised, never a second one, so a candidate consumes at  *)
(* most two calls; when the re-prompt's output is empty too, or the        *)
(* re-prompt throws, the attempt goes on to apply empty change lists.      *)
C8_RepairOnce ==
    \A c \in 1..Len(models) :
        LET cs == C8_CallsOf(c)
        IN  /\ Len(cs) <= 2
            /\ Len(cs) >= 1 => cs[1].kind = "first"
            /\ Len(cs) = 2 => cs[2].kind = "repair" /\ cs[1].outcome = "empty"
            /\ (Len(cs) = 1 /\ cs[1].outcome = "empty")
                   => (cand = c /\ pc = "repair_call")
            /\ Len(cs) = 2 => ~(cand = c /\ pc \in {"call_llm", "repair_call"})
            /\ (Len(cs) = 2 /\ cs[2].outcome # "items" /\ cand = c /\ pc = "apply")
                   => (changes = <<>> /\ tests = <<>>)
            /\ (Len(cs) = 2 /\ cs[2].outcome # "items" /\ cand = c)
                   => pc \in {"apply", "done"}

\* a candidate whose re-prompt came back empty is about to apply nothing
C8_EmptyAfterRepair ==
    /\ pc = "apply"
    /\ Len(C8_CallsOf(cand)) = 2
    /\ C8_CallsOf(cand)[2].outcome \in {"empty", "raised", "nonobject"}

\* the positions of the workflow log at which step s was run
C9_At(s) == {i \in 1..Len(vcs) : vcs[i] = s}

(* C9: draft PR creation is attempted only after the push has succeeded;   *)
(* when the push fails no PR creation is attempted, the run is not aborted *)
(* and the result has push_branch.status failed, status partial, and the   *)
(* branch, commit_sha and diff produced before the push.                   *)
C9_PrOnlyAfterPush ==
    /\ \A i \in C9_At("gh_absent") \union C9_At("gh_version") :
          \E j \in C9_At("push") : j < i
    /\ C9_At("push_failed") # {} =>
          /\ C9_At("gh_absent") \union C9_At("gh_version") = {}
          /\ pc = "done"
          /\ result.status = "partial"
          /\ result.push_branch = "failed"
          /\ result.draft_pr = "failed"
          /\ {"branch", "commit_sha", "diff"} \subseteq result.keys
          /\ result.commit_sha = commit_sha
          /\ result.diff = diff
          /\ result.diff # {}

\* the push failed after a commit was made
C9_PushFailed ==
    /\ C9_At("push_failed") # {}
    /\ C9_At("commit") # {}
    /\ pc = "done"

\* branch creation failed in this run
C10_BranchFailed ==
    C9_At("rev_parse_failed") \union C9_At("checkout_failed") # {}

(* C10: if branch creation fails (not a git working tree, or `git checkout *)
(* -b` exits non-zero) generate_patch returns failed with an error         *)
(* beginning branch_failed, and no commit, push or draft-PR step is run    *)
(* afterwards.                                                             *)
C10_BranchFailureIsFatal ==
    C10_BranchFailed =>
        /\ pc = "done"
        /\ result.status = "failed"
        /\ Head(result.error) = "branch_failed"
        /\ result.draft_pr = "not_attempted"
        /\ \A i \in 1..Len(vcs) : vcs[i] \notin LaterSteps

\* `git checkout -b` exited non-zero and the run has returned
C10_CheckoutFailed ==
    C9_At("checkout_failed") # {} /\ pc = "done"

\* the workflow log v holds a run of `git checkout -b`
C11_CheckoutRun(v) ==
    \E i \in 1..Len(v) : v[i] \in {"checkout", "checkout_failed"}

(* C11: `git checkout -b` is run only after some attempt has written at    *)
(* least one file and observed a non-empty diff; no branch is created on a *)
(* path that ends in a mismatch, repo-preparation or no-changes failure.   *)
C11_BranchOnlyAfterUsableDiff ==
    [][/\ (~C11_CheckoutRun(vcs) /\ C11_CheckoutRun(vcs'))
              => (UsableDiffProduced /\ written # <<>> /\ diff # {})
       /\ (pc' = "done" /\ result'.status = "failed"
           /\ Head(result'.error) \in {"repo_issue_mismatch", "repo_prepare_failed",
                                       "no_changes_generated"})
              => ~C11_CheckoutRun(vcs')]_vars

\* the branch has just been created
C11_BranchCreated == pc = "commit" /\ BranchCreated

\* the entries of the workflow log that stand for a commit step that made
\* no commit
C12_NoCommitSteps == {"add_failed", "status_empty", "commit_failed"}

(* C12: the commit step stages all changes and creates a commit only if    *)
(* `git status` reports changes after staging; when nothing is reported,   *)
(* or staging or the commit fails, it returns no commit id without         *)
(* raising, and the workflow goes on to the push and the PR with an empty  *)
(* commit_sha instead of returning a failure.                              *)
C12_CommitStep ==
    /\ [][pc = "commit" =>
            /\ pc' = "push"
            /\ result' = result
            /\ (head' # head \/ commit_sha' # 0) =>
                  /\ git_status(fs, fs, head) # {}
                  /\ index' = fs
                  /\ head' = fs
                  /\ head' # head
            /\ (\E i \in 1..Len(vcs') : vcs'[i] \in C12_NoCommitSteps) =>
                  /\ head' = head
                  /\ commit_sha' = 0]_vars
    /\ []((\E i \in 1..Len(vcs) : vcs[i] \in C12_NoCommitSteps) =>
            /\ commit_sha = 0
            /\ pc \in {"push", "draft_pr", "done"}
            /\ pc = "done" =>
                  /\ result.status \in {"ok", "partial"}
                  /\ result.commit_sha = 0)

\* nothing was left to commit after staging, and the run went on to return
C12_NothingToCommit ==
    /\ \E i \in 1..Len(vcs) : vcs[i] = "status_empty"
    /\ "git" \in tools
    /\ fs = head
    /\ pc = "done"

(* C13: an attempt that starts on a clean working tree and ends in failed  *)
(* / no_changes_generated leaves the working tree without uncommitted      *)
(* changes: no file it created or modified remains on disk.                *)
C13_CleanAfterNoChanges ==
    [][(/\ git_status(fs, index, head) = {}
        /\ pc' = "done"
        /\ result'.error = <<"no_changes_generated">>)
          => git_status(fs', index', head') = {}]_vars

(* C14: if the first model call of a candidate throws, the exception is    *)
(* caught, an entry with that model and the error is appended to           *)
(* attempt_debug, no file is written for that candidate and the loop moves *)
(* to the next candidate; with no candidate left the run ends failed /     *)
(* no_changes_generated instead of propagating the exception.              *)
C14_FirstCallThrows ==
    [][(/\ Len(calls') = Len(calls) + 1
        /\ calls'[Len(calls')].kind = "first"
        /\ calls'[Len(calls')].outcome = "raised")
          => /\ fs' = fs
             /\ written' = written
             /\ Len(attempt_debug') = Len(attempt_debug) + 1
             /\ attempt_debug'[Len(attempt_debug')].model = models[cand]
             /\ attempt_debug'[Len(attempt_debug')].error
             /\ attempt_debug'[Len(attempt_debug')].written_files = {}
             /\ SubSeq(attempt_debug', 1, Len(attempt_debug)) = attempt_debug
             /\ IF cand < Len(models)
                THEN cand' = cand + 1 /\ pc' = "call_llm"
                ELSE /\ pc' = "done"
                     /\ result'.status = "failed"
                     /\ result'.error = <<"no_changes_generated">>
                     /\ result'.attempt_debug = attempt_debug']_vars

\* the only candidate's first call threw and the run has returned
C14_FirstCallThrew ==
    /\ pc = "done"
    /\ Len(calls) = 1
    /\ calls[1].outcome = "raised"
    /\ result.error = <<"no_changes_generated">>

\* the steps of the workflow log that stand for a command that exited 0
C15_SucceededSteps ==
    {"rev_parse", "checkout", "add", "status", "commit", "push", "gh_version", "pr_create"}

(* C15: a missing executable (git or the PR CLI) never propagates an       *)
(* exception out of a subprocess step; it counts as a non-zero exit and is *)
(* handled like a tool failure; when the PR CLI is absent after a          *)
(* successful push, draft_pr.status is skipped and the status is partial.  *)
C15_MissingExecutable ==
    /\ result.error # <<"FileNotFoundError">>
    /\ "git" \notin tools =>
          /\ diff = {}
          /\ \A i \in 1..Len(vcs) : vcs[i] \notin C15_SucceededSteps
    /\ "gh" \notin tools =>
          /\ \A i \in 1..Len(vcs) : vcs[i] \notin {"gh_version", "pr_create", "pr_create_failed"}
          /\ (pc = "done" /\ \E i \in 1..Len(vcs) : vcs[i] = "push") =>
                /\ result.draft_pr = "skipped"
                /\ result.status = "partial"

\* the push succeeded on a host without the PR CLI, and the run has returned
C15_GhAbsentAfterPush ==
    /\ "gh" \notin tools
    /\ \E i \in 1..Len(vcs) : vcs[i] = "push"
    /\ pc = "done"

(* C16: in every result with status ok, commit_sha is a non-empty commit   *)
(* id, changed_files is non-empty and contains every path the accepted     *)
(* attempt wrote, and draft_pr.status is created.                          *)
C16_OkResult ==
    (pc = "done" /\ result.status = "ok") =>
        /\ result.commit_sha # 0
        /\ result.changed_files # {}
        /\ result.attempt_debug[Len(result.attempt_debug)].written_files
              \subseteq result.changed_files
        /\ result.draft_pr = "created"

----------------------------------------------------------------------------
(* Properties of the path normaliser and of the JSON repair                *)

\* the path is repo_name + "/" + rel for a relative path rel
C17_Qualified(path, repo) ==
    /\ startswith(path, repo \o <<"/">>)
    /\ Len(path) > Len(repo) + 1
    /\ path[Len(repo) + 2] # "/"

(* C17: for every repository name repo_name and every relative path rel,   *)
(* normalize_path(repo_name + "/" + rel, repo_name) returns exactly rel.    *)
C17_PrefixRoundTrip ==
    (pc = "normalized" /\ C17_Qualified(args[1], args[2])) =>
        ret[1] = SubSeq(args[1], Len(args[2]) + 2, Len(args[1]))

\* the tokens i..j of the text are a JSON object on their own
C18_ObjectAt(text, i, j) ==
    /\ json_loads(SubSeq(text, i, j)).ok
    /\ json_loads(SubSeq(text, i, j)).value.kind = "object"

\* the patch or the code-search agent's _parse_json_safe has returned
C18_Returned ==
    pc = "returned" /\ args[1] \in {"patch_agent", "codebase_search_agent"}

(* C18, as stated: for every raw text that holds a syntactically valid     *)
(* JSON object anywhere within it, possibly preceded and followed by prose *)
(* that may itself contain `{` or `}`, _parse_json_safe returns that       *)
(* object's parsed value rather than the fallback.                         *)
C18_ObjectAnywhereAsStated ==
    C18_Returned =>
        \A i \in 1..Len(args[2]) : \A j \in i..Len(args[2]) :
            C18_ObjectAt(args[2], i, j)
                => ret[1] = json_loads(SubSeq(args[2], i, j)).value

(* C18, amended: for every raw text that holds a syntactically valid JSON  *)
(* object with no `{` before it and no `}` after it, and that json.loads   *)
(* rejects as a whole unless it is that object alone, _parse_json_safe     *)
(* returns that object's parsed value rather than the fallback.            *)
C18_ObjectInBraceFreeProse ==
    C18_Returned =>
        \A i \in 1..Len(args[2]) : \A j \in i..Len(args[2]) :
            (/\ C18_ObjectAt(args[2], i, j)
             /\ \A k \in 1..(i - 1) : args[2][k].k # "lbrace"
             /\ \A k \in (j + 1)..Len(args[2]) : args[2][k].k # "rbrace"
             /\ ~json_loads(args[2]).ok \/ (i = 1 /\ j = Len(args[2])))
                => ret[1] = json_loads(SubSeq(args[2], i, j)).value

\* the object was returned from between prose on both sides
C18_ObjectBetweenProse ==
    /\ C18_Returned
    /\ args[2] = <<Tok("prose"), Tok("lbrace"), [k |-> "members", v |-> ObjectA],
                   Tok("rbrace"), Tok("prose")>>
    /\ ret = <<ObjectA>>
    /\ ret[1] # args[3]

(* C19: every _parse_json_safe (patch, code-search, documentation and      *)
(* triage agent) returns, for every input text, either a parsed object or  *)
(* the caller-supplied fallback value; it never raises and never returns   *)
(* None when all repair stages fail.                                       *)
C19_ObjectOrFallback ==
    /\ pc # "raised"
    /\ pc = "returned" =>
          /\ ret[1] # None
          /\ ret[1].kind = "object" \/ ret[1] = args[3]

\* the path without one leading "./"
C20_WithoutDotSlash(path) ==
    IF startswith(path, <<".", "/">>) THEN SubSeq(path, 3, Len(path)) ELSE path

\* at least three segments, a dot in the last one, the first two non-empty
\* and not dot-prefixed
C20_OwnerRepoLike(path) ==
    LET parts == split(path, "/")
    IN  /\ Len(parts) >= 3
        /\ contains(parts[Len(parts)], <<".">>)
        /\ parts[1] # <<>> /\ Head(parts[1]) # "."
        /\ parts[2] # <<>> /\ Head(parts[2]) # "."

(* C20: normalize_path removes only a single leading `./`; a path that     *)
(* then neither starts with repo_name + "/" nor matches the owner/repo     *)
(* heuristic is returned unchanged, also when it begins with a             *)
(* dot-prefixed segment (`.github/x.yml`, `.env`, `../x`).                 *)
C20_UnchangedOtherwise ==
    pc = "normalized" =>
        LET p == C20_WithoutDotSlash(args[1])
        IN  (~startswith(p, args[2] \o <<"/">>) /\ ~C20_OwnerRepoLike(p))
                => ret[1] = p

----------------------------------------------------------------------------
(* Properties of the two _write_changes calls of an attempt                *)

\* the items of the attempt, those of `changes` before those of `tests`
AttemptItems == changes \o tests

\* the item's content has no shape that _coerce_content_to_text supports
C21_Unsupported(item) ==
    LET c == item.content
    IN  ~ \/ c.shape \in {"str", "list"}
          \/ /\ c.shape = "dict"
             /\ c.key \in {"text", "code", "content", "body"}
             /\ c.vshape \in {"str", "list"}

\* the working tree after the items with a supported content alone
C21_WithoutUnsupported ==
    write_changes(head, SelectSeq(AttemptItems, LAMBDA i : ~C21_Unsupported(i)), repo_name)

(* C21: a change item whose content is not a string, a list of strings or  *)
(* a dict holding one under text/code/content/body is skipped: no file is   *)
(* created or modified for it, its path is not recorded as changed, no      *)
(* placeholder text is written, and the remaining items are processed as    *)
(* if it were not in the list.                                              *)
C21_UnsupportedContentSkipped ==
    pc \in {"applied", "raised"} =>
        /\ fs = C21_WithoutUnsupported.tree
        /\ written = C21_WithoutUnsupported.written
        /\ pc = "applied" => changed = Range(C21_WithoutUnsupported.changed_files)

\* an unsupported item came first and the item after it was written
C21_SkippedThenWritten ==
    /\ pc = "applied"
    /\ Len(changes) = 2
    /\ C21_Unsupported(changes[1])
    /\ written = <<PathA>>
    /\ fs # head

(* C22: the list of context files assembled for one patch request never    *)
(* has more than 12 entries, evidence-derived and discovered files counted *)
(* together, and each entry's content has at most 12,000 characters.       *)
C22_ContextBounded ==
    pc = "build_prompt" =>
        /\ Len(ret) <= 12
        /\ \A i \in 1..Len(ret) : ret[i].content_len <= 12000

(* C23: within one attempt each distinct normalized path is written to the *)
(* filesystem at most once, also when the path appears in several change   *)
(* items or in both `changes` and `tests`.                                  *)
C23_WrittenOncePerPath ==
    \A i \in 1..Len(written) : \A j \in 1..Len(written) :
        written[i] = written[j] => i = j

\* position i of the text lies inside a double-quoted string literal, the
\* quotes included
C24_InString(text, i) == scan_comments(text, 1, FALSE, FALSE)[i] = "str"

\* position i of the text lies inside a // or /* */ comment
C24_InComment(text, i) == scan_comments(text, 1, FALSE, FALSE)[i] = "comment"

(* C24: the comment and trailing-comma cleanup leaves every character      *)
(* inside a double-quoted string literal unchanged (`//`, `/* */` and a `,` *)
(* before `}` inside a literal are neither removed nor altered), while      *)
(* comments outside string literals are removed.                            *)
C24_StringsUntouched ==
    pc = "cleaned" =>
        \A i \in 1..Len(args[1]) :
            /\ C24_InString(args[1], i) => \E k \in 1..Len(ret[1]) : ret[1][k] = i
            /\ C24_InComment(args[1], i) => \A k \in 1..Len(ret[1]) : ret[1][k] # i

(* C25: when the reasoning holds no marker phrase, the mismatch is         *)
(* reported exactly when suspect files are named and every normalised       *)
(* suspect path is absent from the working tree; and when a suspect file    *)
(* named by its true repository-relative path exists on disk, no mismatch   *)
(* is reported and generation goes on to the model call.                    *)
C25_MismatchOnlyWhenAllAbsent ==
    (pc \in {"call_llm", "done"} /\ ~has_missing_marker(reasoning)) =>
        /\ (pc = "done") <=>
               /\ suspect_files # <<>>
               /\ \A i \in 1..Len(suspect_files) :
                      ~Exists(fs, FsKey(normalize_repo_relative_path(
                                            strip(suspect_files[i]), repo_name)))
        /\ (\E i \in 1..Len(suspect_files) : suspect_files[i] \in DOMAIN fs)
               => pc = "call_llm"

\* the paths whose committed content differs between two commits
C26_CommittedPaths(before, after) ==
    {p \in DOMAIN before \union DOMAIN after :
        ~(p \in DOMAIN before /\ p \in DOMAIN after /\ before[p] = after[p])}

(* C26: the commit made by a run contains changes only to the paths of the *)
(* result's changed_files: files that were modified or untracked before the *)
(* invocation, or written by an earlier attempt that was not accepted, are  *)
(* never part of the commit.                                                *)
C26_CommitOnlyChangedFiles ==
    (pc = "done" /\ head # HeadTree) =>
        C26_CommittedPaths(HeadTree, head)
            \subseteq {FsKey(f) : f \in result.changed_files}

\* the paths of the file system whose content the two calls created or
\* modified
C27_Touched == {p \in DOMAIN fs : p \notin DOMAIN head \/ fs[p] # head[p]}

(* C27: whatever file_path the items carry (absolute, with leading or      *)
(* embedded `..`, with an owner/repo prefix), every file _write_changes     *)
(* creates or modifies lies inside the repository root.                     *)
C27_WritesInsideRoot ==
    pc \in {"applied", "raised"} =>
        \A p \in C27_Touched : ~startswith(p, <<".", ".", "/">>)

(* C28: an item whose file_path is already the repository-relative path of *)
(* an existing file, at any depth, and whose content passes the gate is     *)
(* written to that same file and to no other, and that same path is         *)
(* recorded as changed.                                                     *)
C28_TruePathKept ==
    (/\ pc = "applied"
     /\ Len(AttemptItems) = 1
     /\ AttemptItems[1].file_path \in DOMAIN head
     /\ written # <<>>) =>
        /\ C27_Touched = {AttemptItems[1].file_path}
        /\ changed = {AttemptItems[1].file_path}

(* C29: no item, whatever its action, replaces an existing non-empty file  *)
(* with content that is below 0.35 of the original in both character length *)
(* and line count.                                                          *)
C29_NoTruncation ==
    pc \in {"applied", "raised"} =>
        \A p \in DOMAIN head \intersect DOMAIN fs :
            (head[p] # <<>> /\ head[p] # LinkOut /\ fs[p] # head[p])
                => ~C4_BothRatiosBelow(head[p], fs[p])

\* the event that ends a run: `complete`, or the `error` of the except branch
C30_Terminal(e) ==
    /\ e # None
    /\ e.agent = "pipeline"
    /\ e.type = "complete" \/ (e.type = "error" /\ e.step = "fatal")

\* everything handed over so far, in the order the client receives it:
\* yielded, then on the queue, then scheduled on the loop
C30_InOrder == stream \o queue \o ready

====
